---- MODULE Spec2Model ----
(***************************************************************************)
(* Verification model of rabbit-digger-pro.                                *)
(*                                                                         *)
(* Part 1: the in-process virtual host (apir/src/virtual_host.rs): the     *)
(* port registry behind one mutex, tcp_bind / udp_bind / tcp_connect,      *)
(* listener accept and drop (SpecHost), the byte pipe of one TCP stream    *)
(* with its carry buffer (SpecStream), and one UDP pipe (SpecUdp).         *)
(*                                                                         *)
(* Part 2: the controller (src/controller.rs): the reload loop of          *)
(* Controller::run_stream with the per-connection tasks of the servers it  *)
(* runs (SpecController), the event queue with its drainer and the         *)
(* instrumented net (SpecEvents), and the event broadcast with its         *)
(* subscribers (SpecBroadcast).                                            *)
(*                                                                         *)
(* Part 3: the servers: the remote tunnel server (remote/src/server.rs)    *)
(* with the map of accepted streams its channel tasks share (SpecRemote),  *)
(* and the forward server (rd-std/src/builtin/forward.rs) with its accept  *)
(* loop, its connection tasks and its UDP channel (SpecForward).           *)
(*                                                                         *)
(* Part 4: the process (src/main.rs): real_main around the controller's    *)
(* reload loop, and the exit code main leaves (SpecMain).                  *)
(***************************************************************************)
EXTENDS Integers, Sequences, FiniteSets, Bags, TLC

\* ------------------------------------------------------------------------
\* Bounds
\* ------------------------------------------------------------------------

\* Largest port number of the model: stands for u16::MAX, scaled down.
MaxPort == 2

\* Largest number of successful tcp_connect calls followed in one behaviour.
MaxConns == 2

\* Largest number of bytes one endpoint of a stream writes in one behaviour.
MaxWritten == 3

\* Largest length of the buffer passed to one read.
MaxBuf == 2

\* Largest number of chunks waiting in one direction of a stream.
MaxChunks == 2

\* Largest number of datagrams waiting in the two directions of a UDP pipe.
MaxDatagrams == 2

\* Largest number of items (configs and errors) the config stream yields.
MaxConfigs == 3

\* Largest number of per-connection tasks relaying at one time.
MaxTasks == 2

\* Largest number of events emitted in one behaviour.
MaxEvents == 17


\* Largest number of batches the drainer sends on the broadcast channel.
MaxBatches == 19


\* Largest number of channels the remote tunnel server spawns a task for.
MaxChannels == 3

\* Largest number of connections the tunnel server's listeners accept.
MaxVended == 2


\* Largest number of connections the forward server's listener accepts.
MaxAccepts == 2

\* Largest number of datagrams the clients of the forward server send.
MaxUdp == 3

\* Largest number of datagrams the upstream has not answered yet.
MaxInflight == 2

\* ------------------------------------------------------------------------
\* Addresses
\* ------------------------------------------------------------------------

Protocol == {"Tcp", "Udp"}

PortNumbers == 0..MaxPort

\* struct Port(Protocol, u16)
Port(protocol, n) == <<protocol, n>>

Ports == Protocol \X PortNumbers

\* IP addresses a caller may pass: loopback, unspecified and one routable
\* address.
IpAddrs == {"127.0.0.1", "0.0.0.0", "8.8.8.8"}

SocketAddrs == [ip : IpAddrs, port : PortNumbers]

SocketAddr_new(ip, port) == [ip |-> ip, port |-> port]

\* std::net::IpAddr::is_loopback
is_loopback(ip) == ip \in {"127.0.0.1", "::1"}

\* std::net::IpAddr::is_unspecified
is_unspecified(ip) == ip \in {"0.0.0.0", "::"}

\* impl Into<SocketAddr> for Port, had it used the unspecified address
Port_into_unspecified(p) == SocketAddr_new("0.0.0.0", p[2])

\* impl Into<SocketAddr> for Port: always 127.0.0.1 and the port number
Port_into(p) == SocketAddr_new("127.0.0.1", p[2])

\* check_address, accepting every address
check_address_any(addr) == TRUE

\* fn check_address: TRUE for Ok(()), FALSE for Err(AddrNotAvailable)
check_address(addr) ==
    IF is_loopback(addr.ip) THEN TRUE
    ELSE IF is_unspecified(addr.ip) THEN TRUE
    ELSE FALSE

\* ------------------------------------------------------------------------
\* State
\* ------------------------------------------------------------------------

VARIABLES
    ports,      \* Inner.ports: Port -> Value (the registry's pipe endpoint)
    next_port,  \* Inner.next_port
    inner_lock, \* the registry mutex: "free", or "held" by a call that never returns
    build,      \* "debug" (overflow checks on) or "release" (wrapping arithmetic)
    conns,      \* the client streams (TcpData) tcp_connect has returned: a bag
    last        \* the last call that returned Ok: its argument and the value
                \* it returned

hostVars == <<ports, next_port, inner_lock, build, conns, last>>

\* One TCP stream of the virtual host: the Pipe<Vec<u8>, TcpData> pair made
\* by TcpStream::new in tcp_connect. Each variable is a function of the
\* endpoint.
VARIABLES
    chan,       \* chan[e]: the chunks e's sender has queued for the peer's receiver
    sender,     \* sender[e]: "open", or "closed" once e's write half was closed
    dropped,    \* dropped[e]: the endpoint has been dropped
    buf,        \* buf[e]: e.data.buf, the carry buffer of e's read side
    written,    \* written[e]: every byte a write on e has accepted, in order
    received    \* received[e]: every byte a read on e has returned, in order

streamVars == <<chan, sender, dropped, buf, written, received>>

\* One UDP pipe of the virtual host: the Pipe<(Vec<u8>, SocketAddr), Port>
\* pair made by UdpSocket::new in udp_bind.
VARIABLES
    udp_chan,    \* udp_chan[e]: the datagrams e's sender has queued for the
                 \* peer's receiver
    udp_dropped  \* udp_dropped[e]: the end has been dropped

udpVars == <<udp_chan, udp_dropped>>

\* The controller's reload loop: one call of Controller::run_stream, the
\* config stream it pulls from and the topology it runs.
VARIABLES
    ctl_pc,       \* where run_stream is: "first_pull", "build", "set_running",
                  \* "select", "wait_config" (cfg_fut.await), "set_idle",
                  \* "returned"
    state,        \* Inner.state: "Idle" or "Running"
    config,       \* the local config: "none", or the config to build from
    new_config,   \* the local new_config: "none", or what the race yielded
    serve,        \* run_fut, the serve future: "none", "serving",
                  \* "completed_ok", "completed_err"
    generation,   \* the number of topologies that have entered Running
    tasks,        \* tasks[g]: the per-connection tasks spawned under the g-th
                  \* topology that are still relaying
    result,       \* what run_stream returned: "none" until it returns
    stream_state, \* the caller's config stream: "open" or "ended"
    pulled        \* the number of items the config stream has yielded

ctlVars == <<ctl_pc, state, config, new_config, serve, generation, tasks,
             result, stream_state, pulled>>

\* The event plane: the unbounded queue the instrumented nets push to and
\* the drainer task (fn process) Controller::new spawns.
VARIABLES
    ev_queue,    \* the events waiting in the unbounded mpsc channel
    ev_emitted,  \* the number of events pushed so far; the k-th is event k
    ev_senders,  \* "open", or "closed" once every event_sender was dropped
    drainer_pc,  \* where process is: "recv", "sleep", "drain", "done"
    events,      \* the local events: the batch being collected
    batch,       \* the batch of the last sender.send(events); <<>> before it
    net_last     \* the last call on the instrumented net: what was asked,
                 \* what the inner net answered, what was returned and the
                 \* events the call pushed

evVars == <<ev_queue, ev_emitted, ev_senders, drainer_pc, events, batch,
            net_last>>


\* The event broadcast: the channel Controller::new makes, the drainer's
\* sends on it and the receivers get_subscriber hands out.  The k-th batch
\* the drainer sends is written k: it holds the events drained between the
\* (k-1)-th and the k-th send, in queue order (process_drain).
VARIABLES
    bc_sends,    \* the number of sender.send(events) calls made so far
    bc_pos,      \* the number of batches the channel has stored so far
    bc_ring,     \* the batches the channel retains, oldest first
    rx_status,   \* per subscriber: "none", "live" or "dropped"
    rx_next,     \* per subscriber: the number of stored batches it is past
    rx_start,    \* per subscriber: bc_sends when it subscribed
    rx_received  \* per subscriber: the batches its recv calls returned

bcVars == <<bc_sends, bc_pos, bc_ring, rx_status, rx_next, rx_start,
            rx_received>>


\* The remote tunnel server (remote/src/server.rs): the accept loop of
\* RemoteServer::start, the task it spawns per channel and the Map the
\* tasks share.
VARIABLES
    rem_server,       \* start: "accepting", or "stopped" once it returned
    rem_protocol_err, \* TRUE once self.protocol.channel() returned an error
    rem_channels,     \* per channel, its task: pc, the request it read, the
                      \* id it holds, the number of BindAddr it sent
    rem_map,          \* the DashMap: id -> the channel whose listener
                      \* accepted the stream stored under it
    rem_counter,      \* the AtomicU64
    rem_vended,       \* the ids Map::insert returned, in the order of the
                      \* fetch_add calls
    rem_consumed,     \* the ids Map::get returned a stream for, in order
    rem_accepted      \* the ids sent to clients in Accept responses

remVars == <<rem_server, rem_protocol_err, rem_channels, rem_map, rem_counter,
             rem_vended, rem_consumed, rem_accepted>>


\* The forward server (rd-std/src/builtin/forward.rs): start with its two
\* branches, the tasks serve_listener spawns, and the ListenUdpChannel the
\* UDP bridge runs on.  The Shadowsocks server's serve_tcp and
\* serve_connection (protocol/ss/src/server.rs) have the same shape.
VARIABLES
    fwd_udp_cfg,   \* cfg.udp, once the server is built
    fwd_start,     \* the server: "new" before it is built, then where start
                   \* is: "bind", "select", "returned", or "dropped" once the
                   \* controller dropped the future
    fwd_result,    \* what start returned: "none" until it returns
    fwd_loop,      \* serve_listener: "none", "accepting", "returned", or
                   \* "dropped" with the select it was a branch of
    fwd_loop_err,  \* the error serve_listener returned: "none", "accept", or
                   \* "connection"
    fwd_tasks,     \* the spawned tasks that run: how many are in tcp_connect
                   \* and how many relay
    fwd_logged,    \* the number of tasks that ended with their error logged
    fwd_accepted,  \* the number of connections accepted so far
    fwd_udp,       \* serve_udp: "none", "start", "pending", "bind_net",
                   \* "bridge", "returned", "dropped"
    fwd_udp_binds, \* the udp_bind calls made: "listen_net", "net"
    fwd_client,    \* ListenUdpChannel.client: "None" or the client's address
    fwd_upstream,  \* the datagrams sent upstream and not answered yet, each
                   \* written as the client that sent it
    fwd_udp_sent,  \* the number of datagrams the clients have sent
    fwd_reply      \* the last reply that came from upstream: the client whose
                   \* datagram it answers and where start_send sent it

fwdVars == <<fwd_udp_cfg, fwd_start, fwd_result, fwd_loop, fwd_loop_err,
             fwd_tasks, fwd_logged, fwd_accepted, fwd_udp, fwd_udp_binds,
             fwd_client, fwd_upstream, fwd_udp_sent, fwd_reply>>


\* The process (src/main.rs): real_main around the reload loop, and what
\* main makes of its result.
VARIABLES
    main_pc,      \* where main is: "setup" (real_main before start_stream),
                  \* "start_stream", "match" (real_main has returned),
                  \* "exited"
    main_result,  \* what real_main returned: "none", "Ok" or "Err"
    exit_code     \* the exit code of the process; -1 while it runs

mainVars == <<main_pc, main_result, exit_code>>

\* Variables the virtual host's calls leave alone
notHostVars == <<streamVars, udpVars, ctlVars, evVars, bcVars, remVars, fwdVars, mainVars>>

\* Variables the calls on a stream leave alone
notStreamVars == <<hostVars, udpVars, ctlVars, evVars, bcVars, remVars, fwdVars, mainVars>>

\* Variables the calls on a UDP socket leave alone
notUdpVars == <<hostVars, streamVars, ctlVars, evVars, bcVars, remVars, fwdVars, mainVars>>

\* Variables the controller leaves alone
notCtlVars == <<hostVars, streamVars, udpVars, evVars, bcVars, remVars, fwdVars, mainVars>>

\* Variables the event plane leaves alone
notEvVars == <<hostVars, streamVars, udpVars, ctlVars, bcVars, remVars, fwdVars, mainVars>>

\* Variables the event broadcast leaves alone
notBcVars == <<hostVars, streamVars, udpVars, ctlVars, evVars, remVars, fwdVars, mainVars>>

\* Variables the remote tunnel server leaves alone
notRemVars == <<hostVars, streamVars, udpVars, ctlVars, evVars, bcVars, fwdVars, mainVars>>

\* Variables the forward server leaves alone
notFwdVars == <<hostVars, streamVars, udpVars, ctlVars, evVars, bcVars, remVars, mainVars>>

\* Variables main leaves alone
notMainVars == <<hostVars, streamVars, udpVars, ctlVars, evVars, bcVars, remVars, fwdVars>>

vars == <<hostVars, streamVars, udpVars, ctlVars, evVars, bcVars, remVars, fwdVars, mainVars>>

\* TcpData of the endpoint tcp_connect returns
TcpData(local, peer) == [buf |-> <<>>, local_addr |-> local, peer_addr |-> peer]

\* TcpData::swap that leaves the record as it is
TcpData_noswap(d) == d

\* TcpData::swap
TcpData_swap(d) == [d EXCEPT !.local_addr = d.peer_addr, !.peer_addr = d.local_addr]

\* Value::TcpListener(sender): the registry's end of the pipe made by
\* TcpListener::new(key). queue is the channel from that end to the listener
\* handle, data the Port both ends carry; handle tells whether the listener
\* returned to the caller is still owned by it.
Value_TcpListener(key) ==
    [kind |-> "TcpListener", data |-> key, handle |-> "live", queue |-> <<>>]

\* Value::UdpSocket(other): the registry's end of the pipe made by
\* UdpSocket::new(key)
Value_UdpSocket(key) ==
    [kind |-> "UdpSocket", data |-> key, handle |-> "live", queue |-> <<>>]

\* TcpListener::local_addr of the listener whose data is key
TcpListener_local_addr(key) == Port_into(key)

\* TcpStream::local_addr
TcpStream_local_addr(d) == Port_into(d.local_addr)

\* TcpStream::peer_addr
TcpStream_peer_addr(d) == Port_into(d.peer_addr)

\* fn map_err: every SendError becomes BrokenPipe
map_err == "BrokenPipe"

NoCall == [op |-> "none"]

InitHost ==
    /\ ports = <<>>
    /\ next_port = 1
    /\ inner_lock = "free"
    /\ build \in {"debug", "release"}
    /\ conns = EmptyBag
    /\ last = NoCall

\* ------------------------------------------------------------------------
\* Port allocation
\* ------------------------------------------------------------------------

\* Inner::next_port. The loop increments self.next_port in place; the
\* increment of u16::MAX panics in a build with overflow checks and wraps to
\* 0 otherwise. A wrapped search that finds every port taken never ends.
RECURSIVE next_port_loop(_, _, _, _)
next_port_loop(ps, protocol, np, steps) ==
    IF Port(protocol, np) \notin DOMAIN ps
    THEN [outcome |-> "ok", next_port |-> np]
    ELSE IF np = MaxPort
         THEN IF build = "debug"
              THEN [outcome |-> "panic", next_port |-> np]
              ELSE IF steps > MaxPort
                   THEN [outcome |-> "hang", next_port |-> np]
                   ELSE next_port_loop(ps, protocol, 0, steps + 1)
         ELSE next_port_loop(ps, protocol, np + 1, steps + 1)

Inner_next_port(ps, np, protocol) == next_port_loop(ps, protocol, np, 0)

\* Inner::get_port that takes a port number bound for either protocol as in
\* use
Inner_get_port_shared(ps, np, protocol, port) ==
    LET n == IF port = 0 THEN Inner_next_port(ps, np, "Udp")
                         ELSE [outcome |-> "ok", next_port |-> np]
        key == Port(protocol, IF port = 0 THEN n.next_port ELSE port)
    IN  IF n.outcome # "ok"
        THEN [res |-> n.outcome, next_port |-> n.next_port]
        ELSE IF \E q \in Protocol : Port(q, key[2]) \in DOMAIN ps
             THEN [res |-> "AddrInUse", next_port |-> n.next_port]
             ELSE [res |-> "Ok", key |-> key, next_port |-> n.next_port]

\* Inner::get_port: for port 0 the search runs over the UDP table whatever
\* the protocol asked for (self.next_port(Protocol::Udp)).
Inner_get_port(ps, np, protocol, port) ==
    LET n == IF port = 0 THEN Inner_next_port(ps, np, "Udp")
                         ELSE [outcome |-> "ok", next_port |-> np]
        key == Port(protocol, IF port = 0 THEN n.next_port ELSE port)
    IN  IF n.outcome # "ok"
        THEN [res |-> n.outcome, next_port |-> n.next_port]
        ELSE IF key \in DOMAIN ps
             THEN [res |-> "AddrInUse", next_port |-> n.next_port]
             ELSE [res |-> "Ok", key |-> key, next_port |-> n.next_port]

\* ------------------------------------------------------------------------
\* Operations of the virtual host. Each call takes the registry lock right
\* after check_address and holds it until it returns, so each is one step.
\* For each operation, X_call is what the call does in the current state
\* (its result, the registry it leaves, the value it returns) and the action
\* X applies it.
\* ------------------------------------------------------------------------

\* A call that returns Err(res), or ends in a panic: ports is as it was
Failure(res, np) == [res |-> res, next_port |-> np, ports |-> ports, conns |-> conns]

\* A call that waits for the registry lock behind a call that never returns
Blocked == Failure("blocked", next_port)

\* VirtualHost::tcp_bind
tcp_bind_call(addr) ==
    IF ~check_address(addr) THEN Failure("AddrNotAvailable", next_port)
    ELSE IF inner_lock = "held" THEN Blocked
    ELSE LET r == Inner_get_port(ports, next_port, "Tcp", addr.port)
         IN  IF r.res # "Ok" THEN Failure(r.res, r.next_port)
             ELSE [res |-> "Ok", next_port |-> r.next_port,
                   ports |-> (r.key :> Value_TcpListener(r.key)) @@ ports,
                   conns |-> conns,
                   ret |-> [op |-> "tcp_bind", addr |-> addr, key |-> r.key,
                            local_addr |-> TcpListener_local_addr(r.key)]]

\* VirtualHost::udp_bind
udp_bind_call(addr) ==
    IF ~check_address(addr) THEN Failure("AddrNotAvailable", next_port)
    ELSE IF inner_lock = "held" THEN Blocked
    ELSE LET r == Inner_get_port(ports, next_port, "Udp", addr.port)
         IN  IF r.res # "Ok" THEN Failure(r.res, r.next_port)
             ELSE [res |-> "Ok", next_port |-> r.next_port,
                   ports |-> (r.key :> Value_UdpSocket(r.key)) @@ ports,
                   conns |-> conns,
                   ret |-> [op |-> "udp_bind", key |-> r.key]]

\* Value::get_tcp_listener: TRUE for Ok, FALSE for Err(ConnectionRefused)
Value_get_tcp_listener(v) == v.kind = "TcpListener"

\* VirtualHost::tcp_connect. The key it allocates for the caller is stored
\* in the stream's TcpData only; nothing is inserted into ports. The send to
\* the listener fails (map_err) when the listener handle, which owns the
\* receiving half, has been dropped. Each queued stream is kept with dual,
\* the TcpData of the client endpoint of the same pipe.
tcp_connect_call(addr) ==
    IF ~check_address(addr) THEN Failure("AddrNotAvailable", next_port)
    ELSE IF inner_lock = "held" THEN Blocked
    ELSE LET target_key == Port("Tcp", addr.port)
             r == Inner_get_port(ports, next_port, "Tcp", 0)
         IN  IF r.res # "Ok" THEN Failure(r.res, r.next_port)
             ELSE IF target_key \notin DOMAIN ports
             THEN Failure("ConnectionRefused", r.next_port)
             ELSE IF ~Value_get_tcp_listener(ports[target_key])
             THEN Failure("ConnectionRefused", r.next_port)
             ELSE IF ports[target_key].handle = "dropped"
             THEN Failure(map_err, r.next_port)
             ELSE LET tcp_socket == TcpData(r.key, target_key)
                      other == TcpData_swap(tcp_socket)
                  IN  [res |-> "Ok", next_port |-> r.next_port,
                       ports |-> [ports EXCEPT ![target_key].queue =
                                     Append(@, [data |-> other, dual |-> tcp_socket])],
                       conns |-> conns (+) SetToBag({tcp_socket}),
                       ret |-> [op |-> "tcp_connect", addr |-> addr,
                                local_addr |-> TcpStream_local_addr(tcp_socket),
                                peer_addr |-> TcpStream_peer_addr(tcp_socket)]]

\* TcpListener::accept on the listener bound to key. With an empty queue the
\* call stays suspended: the registry keeps the sending half, so the channel
\* never closes.
accept_call(key) ==
    IF ports[key].queue = <<>> THEN Failure("pending", next_port)
    ELSE LET t == Head(ports[key].queue)
         IN  [res |-> "Ok", next_port |-> next_port,
              ports |-> [ports EXCEPT ![key].queue = Tail(@)],
              conns |-> conns,
              ret |-> [op |-> "accept", dual |-> t.dual,
                       local_addr |-> TcpStream_local_addr(t.data),
                       peer_addr |-> TcpStream_peer_addr(t.data),
                       addr |-> Port_into(t.data.peer_addr)]]

\* The step of a call c that comes to an end. A call that fails leaves what
\* the last successful call returned in last; a search for a port that never
\* ends keeps the lock for good.
Returns(c) ==
    /\ c.res \notin {"blocked", "pending"}
    /\ ports' = c.ports
    /\ next_port' = c.next_port
    /\ conns' = c.conns
    /\ inner_lock' = IF c.res = "hang" THEN "held" ELSE inner_lock
    /\ last' = IF c.res = "Ok" THEN c.ret ELSE last
    /\ UNCHANGED build
    /\ UNCHANGED notHostVars

tcp_bind(addr) ==
    /\ addr \in SocketAddrs
    /\ Returns(tcp_bind_call(addr))

udp_bind(addr) ==
    /\ addr \in SocketAddrs
    /\ Returns(udp_bind_call(addr))

tcp_connect(addr) ==
    /\ tcp_connect_call(addr).res = "Ok" => BagCardinality(conns) < MaxConns
    /\ Returns(tcp_connect_call(addr))

LiveListener(key) ==
    /\ key \in DOMAIN ports
    /\ ports[key].kind = "TcpListener"
    /\ ports[key].handle = "live"

accept(key) ==
    /\ LiveListener(key)
    /\ Returns(accept_call(key))

\* Dropping the TcpListener handle. Pipe has no Drop impl: the two channel
\* halves the handle owns are dropped (with the streams still queued in its
\* receiver), the registry entry stays.
drop_listener(key) ==
    /\ LiveListener(key)
    /\ ports' = [ports EXCEPT ![key].handle = "dropped", ![key].queue = <<>>]
    /\ last' = [op |-> "drop_listener", key |-> key]
    /\ UNCHANGED <<next_port, inner_lock, build, conns>>
    /\ UNCHANGED notHostVars

NextHost ==
    \/ \E addr \in SocketAddrs : tcp_bind(addr)
    \/ \E addr \in SocketAddrs : udp_bind(addr)
    \/ \E addr \in SocketAddrs : tcp_connect(addr)
    \/ \E key \in Ports : accept(key)
    \/ \E key \in Ports : drop_listener(key)

\* ------------------------------------------------------------------------
\* Properties of the virtual host (checked under SpecHost). A property of
\* what a call returns is stated of X_call, for every argument, in every
\* state the host can reach.
\* ------------------------------------------------------------------------

\* An IP the virtual host is documented to accept
Accepted(ip) == is_loopback(ip) \/ is_unspecified(ip)

AcceptedAddrs == {addr \in SocketAddrs : Accepted(addr.ip)}

TcpKeys == {key \in DOMAIN ports : key[1] = "Tcp"}

UdpKeys == {key \in DOMAIN ports : key[1] = "Udp"}

DroppedListener(key) ==
    /\ key \in DOMAIN ports
    /\ ports[key].kind = "TcpListener"
    /\ ports[key].handle = "dropped"

SetMin(S) == CHOOSE n \in S : \A m \in S : n <= m

\* C1 (as stated): a tcp_bind of an accepted address whose port collides
\* with no TCP port bound before succeeds, and the listener it returns
\* reports local_addr equal to the address passed.
C1_Original ==
    /\ \A addr \in AcceptedAddrs :
          (inner_lock = "free" /\ Port("Tcp", addr.port) \notin DOMAIN ports)
              => tcp_bind_call(addr).res = "Ok"
    /\ last.op = "tcp_bind" => last.local_addr = last.addr

\* C1 (amended): a tcp_bind of an accepted address with a non-zero port that
\* is not bound for TCP succeeds (once it has the registry lock) and
\* registers that port, and the listener it returns reports local_addr
\* 127.0.0.1 with the port passed, which is the address passed exactly when
\* that address's IP is 127.0.0.1.
C1_BindLocalAddr ==
    /\ \A addr \in AcceptedAddrs :
          (inner_lock = "free" /\ addr.port # 0
                               /\ Port("Tcp", addr.port) \notin DOMAIN ports)
              => LET c == tcp_bind_call(addr)
                 IN  /\ c.res = "Ok"
                     /\ DOMAIN c.ports = DOMAIN ports \cup {Port("Tcp", addr.port)}
                     /\ c.ports[Port("Tcp", addr.port)].kind = "TcpListener"
    /\ (last.op = "tcp_bind" /\ last.addr.port # 0)
          => /\ last.local_addr = SocketAddr_new("127.0.0.1", last.addr.port)
             /\ (last.local_addr = last.addr) <=> (last.addr.ip = "127.0.0.1")
             /\ last.key = Port("Tcp", last.addr.port)
             /\ last.key \in DOMAIN ports

\* C1 witness: a second listener has been bound, through the unspecified
\* address and an explicit port.
C1_Witness ==
    /\ last.op = "tcp_bind"
    /\ last.addr.ip = "0.0.0.0"
    /\ last.addr.port # 0
    /\ Cardinality(TcpKeys) >= 2

\* The stream the last call, a tcp_connect, has queued for its listener
QueuedCounterpart ==
    LET q == ports[Port("Tcp", last.addr.port)].queue IN q[Len(q)]

\* What holds of the stream accept has returned, whose client endpoint is
\* last.dual
AcceptedIsMirror ==
    last.op = "accept"
        => /\ BagIn(last.dual, conns)
           /\ last.local_addr = TcpStream_peer_addr(last.dual)
           /\ last.peer_addr = TcpStream_local_addr(last.dual)
           /\ last.addr = last.peer_addr

\* C2 (as stated): the stream of a successful tcp_connect(a) has peer_addr a
\* and the ephemeral port as local_addr; the stream queued for the listener
\* and later returned by accept is its mirror image (local_addr a, peer_addr
\* the client's ephemeral address), and accept returns that peer_addr.
C2_Original ==
    /\ last.op = "tcp_connect"
          => /\ last.peer_addr = last.addr
             /\ last.local_addr = SocketAddr_new("127.0.0.1", next_port)
             /\ QueuedCounterpart.dual.local_addr = Port("Tcp", last.local_addr.port)
             /\ TcpStream_local_addr(QueuedCounterpart.data) = last.addr
             /\ TcpStream_peer_addr(QueuedCounterpart.data) = last.local_addr
    /\ AcceptedIsMirror

\* C2 (amended): the stream of a successful tcp_connect(a) has peer_addr
\* 127.0.0.1 with a's port (a itself exactly when a's IP is 127.0.0.1) and
\* the ephemeral port as local_addr; the stream queued for the listener and
\* later returned by accept is its mirror image, and accept returns the
\* accepted stream's peer_addr.
C2_StreamAddrs ==
    /\ last.op = "tcp_connect"
          => /\ last.peer_addr = SocketAddr_new("127.0.0.1", last.addr.port)
             /\ (last.peer_addr = last.addr) <=> (last.addr.ip = "127.0.0.1")
             /\ last.local_addr = SocketAddr_new("127.0.0.1", next_port)
             /\ QueuedCounterpart.dual.local_addr = Port("Tcp", last.local_addr.port)
             /\ TcpStream_local_addr(QueuedCounterpart.data) = last.peer_addr
             /\ TcpStream_peer_addr(QueuedCounterpart.data) = last.local_addr
    /\ AcceptedIsMirror

\* C2 witness: with two connections made, accept has returned the
\* counterpart of one of them.
C2_Witness ==
    /\ last.op = "accept"
    /\ BagCardinality(conns) = 2
    /\ last.local_addr # last.peer_addr
    /\ last.addr = TcpStream_local_addr(last.dual)

\* The ports >= next_port that are free for a protocol
FreeFrom(protocol) ==
    {n \in next_port..MaxPort : Port(protocol, n) \notin DOMAIN ports}

\* C4: a bind with port 0 succeeds with the smallest port >= next_port that
\* is not bound for the protocol of the bind, whatever is bound for the
\* other protocol.
C4_PortZeroPerProtocol ==
    \A addr \in AcceptedAddrs :
        (inner_lock = "free" /\ addr.port = 0)
            => /\ FreeFrom("Tcp") # {}
                  => /\ tcp_bind_call(addr).res = "Ok"
                     /\ tcp_bind_call(addr).ret.key = Port("Tcp", SetMin(FreeFrom("Tcp")))
               /\ FreeFrom("Udp") # {}
                  => /\ udp_bind_call(addr).res = "Ok"
                     /\ udp_bind_call(addr).ret.key = Port("Udp", SetMin(FreeFrom("Udp")))

\* C5: tcp_connect to 127.0.0.1:p succeeds whenever TCP port p has a live
\* listener, and accept on that listener then returns the counterpart.
C5_ConnectToLiveListener ==
    \A addr \in SocketAddrs :
        (inner_lock = "free" /\ addr.ip = "127.0.0.1"
                             /\ LiveListener(Port("Tcp", addr.port)))
            => LET c == tcp_connect_call(addr)
                   q == c.ports[Port("Tcp", addr.port)].queue
               IN  /\ c.res = "Ok"
                   /\ Len(q) = Len(ports[Port("Tcp", addr.port)].queue) + 1

\* C6: tcp_connect to an accepted address whose TCP port is not in the
\* registry fails with ConnectionRefused and leaves the registry unchanged.
C6_RefusedWithoutListener ==
    \A addr \in AcceptedAddrs :
        (inner_lock = "free" /\ Port("Tcp", addr.port) \notin DOMAIN ports)
            => /\ tcp_connect_call(addr).res = "ConnectionRefused"
               /\ tcp_connect_call(addr).ports = ports

\* C7: the local port of a connection is not the port of any listener and
\* not the local port of any other connection.
C7_EphemeralPortsDistinct ==
    /\ \A c \in BagToSet(conns) : c.local_addr \notin DOMAIN ports
    /\ \A c \in BagToSet(conns) : CopiesIn(c, conns) = 1
    /\ \A c, d \in BagToSet(conns) : c # d => c.local_addr # d.local_addr

\* C8: tcp_bind of the address of a listener that has been dropped succeeds.
C8_RebindAfterDrop ==
    \A addr \in AcceptedAddrs :
        (inner_lock = "free" /\ DroppedListener(Port("Tcp", addr.port)))
            => tcp_bind_call(addr).res = "Ok"

\* C9: tcp_connect to the address of a listener that has been dropped fails
\* with ConnectionRefused.
C9_RefusedAfterDrop ==
    \A addr \in AcceptedAddrs :
        (inner_lock = "free" /\ DroppedListener(Port("Tcp", addr.port)))
            => tcp_connect_call(addr).res = "ConnectionRefused"

\* C10: tcp_bind, udp_bind and tcp_connect with an IP that is neither
\* loopback nor unspecified fail with AddrNotAvailable, whatever the port
\* and whatever the state of the host, and leave ports and next_port
\* unchanged.
C10_AddressRejected ==
    \A addr \in SocketAddrs \ AcceptedAddrs :
        \A c \in {tcp_bind_call(addr), udp_bind_call(addr), tcp_connect_call(addr)} :
            /\ c.res = "AddrNotAvailable"
            /\ c.ports = ports
            /\ c.next_port = next_port

\* C10 witness: a host with TCP and UDP ports bound, a queued connection and
\* next_port moved, on which the three calls reject 8.8.8.8.
C10_Witness ==
    /\ TcpKeys # {}
    /\ UdpKeys # {}
    /\ conns # EmptyBag
    /\ next_port > 1
    /\ tcp_bind_call(SocketAddr_new("8.8.8.8", 1)).res = "AddrNotAvailable"
    /\ udp_bind_call(SocketAddr_new("8.8.8.8", 0)).res = "AddrNotAvailable"
    /\ tcp_connect_call(SocketAddr_new("8.8.8.8", 2)).res = "AddrNotAvailable"

\* The bind call of a protocol
bind_call(protocol, addr) ==
    IF protocol = "Tcp" THEN tcp_bind_call(addr) ELSE udp_bind_call(addr)

\* C11: of the binds that name one protocol and one non-zero port, exactly
\* the first succeeds: a bind whose key is not in the registry succeeds and
\* adds that key and nothing else, its key is in the registry from then on,
\* and a bind whose key is in the registry fails with AddrInUse and leaves
\* ports and next_port as they were. Only the key of the protocol asked for
\* counts: the same port number bound for the other protocol does not
\* collide.
C11_SamePortBindOnce ==
    /\ \A protocol \in Protocol, addr \in AcceptedAddrs :
          (inner_lock = "free" /\ addr.port # 0)
              => LET key == Port(protocol, addr.port)
                     c == bind_call(protocol, addr)
                 IN  IF key \in DOMAIN ports
                     THEN /\ c.res = "AddrInUse"
                          /\ c.ports = ports
                          /\ c.next_port = next_port
                     ELSE /\ c.res = "Ok"
                          /\ c.ret.key = key
                          /\ DOMAIN c.ports = DOMAIN ports \cup {key}
                          /\ \A k \in DOMAIN ports : c.ports[k] = ports[k]
    /\ last.op \in {"tcp_bind", "udp_bind"} => last.key \in DOMAIN ports

\* C11 witness: port 2 has just been bound for UDP by number while it was
\* bound for TCP, and a further bind of port 2 fails for either protocol.
C11_Witness ==
    /\ last = [op |-> "udp_bind", key |-> Port("Udp", 2)]
    /\ Port("Tcp", 2) \in DOMAIN ports
    /\ next_port = 1
    /\ inner_lock = "free"
    /\ tcp_bind_call(SocketAddr_new("0.0.0.0", 2)).res = "AddrInUse"
    /\ udp_bind_call(SocketAddr_new("127.0.0.1", 2)).res = "AddrInUse"

\* Every port from next_port up to the largest is bound for the protocol
\* the search consults
Exhausted(protocol) ==
    \A p \in next_port..MaxPort : Port(protocol, p) \in DOMAIN ports

\* C36: a bind of port 0 never overflows the next_port counter (the call
\* neither aborts nor wraps into a search from 0) and never hands out port
\* 0: no port 0 is in the registry, the counter is never 0 and no call
\* lowers it, and when every port from next_port up to the largest is bound
\* for the protocol consulted the bind returns an error.
C36_NoOverflow ==
    /\ next_port >= 1
    /\ \A key \in DOMAIN ports : key[2] # 0
    /\ inner_lock = "free"
          => \A addr \in AcceptedAddrs :
                addr.port = 0
                    => \A c \in {tcp_bind_call(addr), udp_bind_call(addr)} :
                          /\ c.res \notin {"panic", "hang"}
                          /\ c.next_port >= next_port
                          /\ c.res = "Ok" => c.ret.key[2] # 0
                          /\ Exhausted("Udp") => c.res # "Ok"

\* ------------------------------------------------------------------------
\* One TCP stream: impl AsyncRead / AsyncWrite for TcpStream
\* ------------------------------------------------------------------------

Ends == {"client", "server"}

Peer(e) == IF e = "client" THEN "server" ELSE "client"

\* The state of the pair right after TcpStream::new
InitStream ==
    /\ chan = [e \in Ends |-> <<>>]
    /\ sender = [e \in Ends |-> "open"]
    /\ dropped = [e \in Ends |-> FALSE]
    /\ buf = [e \in Ends |-> <<>>]
    /\ written = [e \in Ends |-> <<>>]
    /\ received = [e \in Ends |-> <<>>]

Min(a, b) == IF a <= b THEN a ELSE b

\* The bytes of one write: the transport never looks at byte values, so the
\* k-th byte an endpoint writes is k, which makes any loss, duplication or
\* reordering visible.
NewBytes(e, len) == [i \in 1..len |-> Len(written[e]) + i]

\* poll_read's copy that forgets the part of the chunk that did not fit
copy_out_forgetful(data, n) ==
    LET to_copy == Min(Len(data), n)
    IN  [ret |-> SubSeq(data, 1, to_copy), rest |-> <<>>]

\* The copy poll_read makes out of data (the front slice of the carry buffer
\* or an incoming chunk) into a buffer of length n: the bytes copied, and
\* what data.drain(0..to_copy) leaves.
copy_out(data, n) ==
    LET to_copy == Min(Len(data), n)
    IN  [ret |-> SubSeq(data, 1, to_copy),
         rest |-> SubSeq(data, to_copy + 1, Len(data))]

\* The channel into e's receiver has no sender left
ChannelClosed(e) == sender[Peer(e)] = "closed" \/ dropped[Peer(e)]

\* AsyncRead::poll_read on endpoint e with a buffer of length n: what the
\* poll returns (ret, the number of bytes; data, the bytes put in the
\* buffer) and the carry buffer and channel it leaves. VecDeque::as_slices
\* promises only that the first slice is non-empty when the deque is:
\* first_len, between 1 and the length of the carry buffer, is the length
\* the ring layout gives it.
poll_read_call(e, n, first_len) ==
    IF Len(buf[e]) > 0
    THEN LET c == copy_out(SubSeq(buf[e], 1, first_len), n)
         IN  [res |-> "Ready", ret |-> Len(c.ret), data |-> c.ret,
              buf |-> c.rest \o SubSeq(buf[e], first_len + 1, Len(buf[e])),
              chan |-> chan[Peer(e)]]
    ELSE IF chan[Peer(e)] # <<>>
    THEN LET c == copy_out(Head(chan[Peer(e)]), n)
         IN  [res |-> "Ready", ret |-> Len(c.ret), data |-> c.ret,
              buf |-> buf[e] \o c.rest,
              chan |-> Tail(chan[Peer(e)])]
    ELSE IF ChannelClosed(e)
    THEN [res |-> "Ready", ret |-> 0, data |-> <<>>,
          buf |-> buf[e], chan |-> chan[Peer(e)]]
    ELSE [res |-> "Pending", ret |-> 0, data |-> <<>>,
          buf |-> buf[e], chan |-> chan[Peer(e)]]

\* The lengths as_slices can give the first slice of e's carry buffer
FirstLens(e) == IF Len(buf[e]) > 0 THEN 1..Len(buf[e]) ELSE {0}

poll_read(e, n) ==
    /\ ~dropped[e]
    /\ \E first_len \in FirstLens(e) :
          LET c == poll_read_call(e, n, first_len)
          IN  /\ c.res = "Ready"
              /\ buf' = [buf EXCEPT ![e] = c.buf]
              /\ chan' = [chan EXCEPT ![Peer(e)] = c.chan]
              /\ received' = [received EXCEPT ![e] = @ \o c.data]
    /\ UNCHANGED <<sender, dropped, written>>
    /\ UNCHANGED notStreamVars

\* poll_write that does not notice that the endpoint's own sender was closed
poll_write_call_unchecked(e, data) ==
    IF dropped[Peer(e)]
    THEN [res |-> map_err, chan |-> chan[e]]
    ELSE [res |-> "Ok", ret |-> Len(data), chan |-> Append(chan[e], data)]

\* AsyncWrite::poll_write on endpoint e with the bytes data. poll_ready
\* fails (map_err) once e's sender was closed or the peer's receiver is gone.
poll_write_call(e, data) ==
    IF sender[e] = "closed" \/ dropped[Peer(e)]
    THEN [res |-> map_err, chan |-> chan[e]]
    ELSE [res |-> "Ok", ret |-> Len(data), chan |-> Append(chan[e], data)]

poll_write(e, len) ==
    /\ ~dropped[e]
    /\ LET c == poll_write_call(e, NewBytes(e, len))
       IN  /\ c.res = "Ok" => /\ Len(written[e]) + len <= MaxWritten
                              /\ Len(chan[e]) < MaxChunks
           /\ chan' = [chan EXCEPT ![e] = c.chan]
           /\ written' = [written EXCEPT ![e] =
                             IF c.res = "Ok" THEN @ \o NewBytes(e, len) ELSE @]
    /\ UNCHANGED <<sender, dropped, buf, received>>
    /\ UNCHANGED notStreamVars

\* AsyncWrite::poll_close on endpoint e: the sender disconnects; what it
\* queued stays readable.
poll_close(e) ==
    /\ ~dropped[e]
    /\ sender' = [sender EXCEPT ![e] = "closed"]
    /\ UNCHANGED <<chan, dropped, buf, written, received>>
    /\ UNCHANGED notStreamVars

\* std::net::Shutdown
Shutdown == {"Read", "Write", "Both"}

\* traits::TcpStream::shutdown: the body is todo!(), which panics whatever
\* the direction and touches neither half of the pipe.
shutdown_call(e, how) ==
    [res |-> "panic", sender |-> sender[e], chan |-> chan[e]]

shutdown(e, how) ==
    /\ ~dropped[e]
    /\ LET c == shutdown_call(e, how)
       IN  /\ sender' = [sender EXCEPT ![e] = c.sender]
           /\ chan' = [chan EXCEPT ![e] = c.chan]
    /\ UNCHANGED <<dropped, buf, written, received>>
    /\ UNCHANGED notStreamVars

\* Dropping endpoint e: its sender goes (the peer reads what is queued, then
\* EOF) and its receiver goes with the chunks still queued for it.
drop_stream(e) ==
    /\ ~dropped[e]
    /\ dropped' = [dropped EXCEPT ![e] = TRUE]
    /\ chan' = [chan EXCEPT ![Peer(e)] = <<>>]
    /\ buf' = [buf EXCEPT ![e] = <<>>]
    /\ UNCHANGED <<sender, written, received>>
    /\ UNCHANGED notStreamVars

NextStream ==
    \/ \E e \in Ends, n \in 0..MaxBuf : poll_read(e, n)
    \/ \E e \in Ends, len \in 0..MaxWritten : poll_write(e, len)
    \/ \E e \in Ends : poll_close(e)
    \/ \E e \in Ends, how \in Shutdown : shutdown(e, how)
    \/ \E e \in Ends : drop_stream(e)

\* ------------------------------------------------------------------------
\* One UDP pipe: impl traits::UdpSocket for UdpSocket
\* ------------------------------------------------------------------------

\* The two ends UdpSocket::new returns in udp_bind: udp_socket goes to the
\* caller, other into the registry (Value::UdpSocket), which keeps it for
\* good.
UdpEnds == {"udp_socket", "other"}

UdpPeer(e) == IF e = "udp_socket" THEN "other" ELSE "udp_socket"

\* The addresses passed to send_to: the call does not look at them
UdpAddrs == {SocketAddr_new("127.0.0.1", 1), SocketAddr_new("8.8.8.8", 2)}

\* The bytes of a datagram of length len: byte k is k
Datagram(len) == [i \in 1..len |-> i]

InitUdp ==
    /\ udp_chan = [e \in UdpEnds |-> <<>>]
    /\ udp_dropped = [e \in UdpEnds |-> FALSE]

\* UdpSocket::send_to on end e: the datagram and the address passed go into
\* the channel as one item; the send fails once the peer's receiver is gone.
send_to_call(e, data, addr) ==
    IF udp_dropped[UdpPeer(e)]
    THEN [res |-> "BrokenPipe", chan |-> udp_chan[e]]
    ELSE [res |-> "Ok", ret |-> Len(data),
          chan |-> Append(udp_chan[e], [data |-> data, addr |-> addr])]

send_to(e, len, addr) ==
    /\ ~udp_dropped[e]
    /\ LET c == send_to_call(e, Datagram(len), addr)
       IN  /\ c.res = "Ok"
                => Len(udp_chan["udp_socket"]) + Len(udp_chan["other"]) < MaxDatagrams
           /\ udp_chan' = [udp_chan EXCEPT ![e] = c.chan]
    /\ UNCHANGED udp_dropped
    /\ UNCHANGED notUdpVars

\* UdpSocket::recv_from on end e with a buffer of length n. The item is
\* taken from the receiver first; buf.clone_from_slice(&dat[0..to_copy])
\* then copies into the whole buffer and panics unless the buffer's length
\* is to_copy, that is, whenever the buffer is longer than the datagram.
recv_from_call(e, n) ==
    IF udp_chan[UdpPeer(e)] # <<>>
    THEN LET d == Head(udp_chan[UdpPeer(e)])
             to_copy == Min(n, Len(d.data))
         IN  IF n # to_copy
             THEN [res |-> "panic", chan |-> Tail(udp_chan[UdpPeer(e)])]
             ELSE [res |-> "Ok", ret |-> to_copy,
                   data |-> SubSeq(d.data, 1, to_copy), addr |-> d.addr,
                   chan |-> Tail(udp_chan[UdpPeer(e)])]
    ELSE IF udp_dropped[UdpPeer(e)]
    THEN [res |-> "BrokenPipe", chan |-> udp_chan[UdpPeer(e)]]
    ELSE [res |-> "pending", chan |-> udp_chan[UdpPeer(e)]]

recv_from(e, n) ==
    /\ ~udp_dropped[e]
    /\ LET c == recv_from_call(e, n)
       IN  /\ c.res # "pending"
           /\ udp_chan' = [udp_chan EXCEPT ![UdpPeer(e)] = c.chan]
    /\ UNCHANGED udp_dropped
    /\ UNCHANGED notUdpVars

\* Dropping the socket udp_bind returned: its sender goes, and its receiver
\* with the datagrams still queued for it.
drop_udp_socket ==
    /\ ~udp_dropped["udp_socket"]
    /\ udp_dropped' = [udp_dropped EXCEPT !["udp_socket"] = TRUE]
    /\ udp_chan' = [udp_chan EXCEPT !["other"] = <<>>]
    /\ UNCHANGED notUdpVars

NextUdp ==
    \/ \E e \in UdpEnds, len \in 0..MaxBuf, addr \in UdpAddrs : send_to(e, len, addr)
    \/ \E e \in UdpEnds, n \in 0..MaxBuf : recv_from(e, n)
    \/ drop_udp_socket

\* ------------------------------------------------------------------------
\* Properties of one UDP pipe (checked under SpecUdp)
\* ------------------------------------------------------------------------

\* C14: recv_from with a datagram queued takes exactly that datagram off
\* the queue and returns n = min(buffer length, datagram length), the first
\* n bytes of the datagram and its address, whether the buffer is longer
\* than, as long as or shorter than the datagram.
C14_RecvFromTruncates ==
    \A e \in UdpEnds, n \in 0..MaxBuf :
        (~udp_dropped[e] /\ udp_chan[UdpPeer(e)] # <<>>)
            => LET d == Head(udp_chan[UdpPeer(e)])
                   c == recv_from_call(e, n)
               IN  /\ c.res = "Ok"
                   /\ c.ret = Min(n, Len(d.data))
                   /\ c.data = SubSeq(d.data, 1, c.ret)
                   /\ c.addr = d.addr
                   /\ c.chan = Tail(udp_chan[UdpPeer(e)])

\* ------------------------------------------------------------------------
\* Properties of one TCP stream (checked under SpecStream)
\* ------------------------------------------------------------------------

RECURSIVE Flatten(_)
Flatten(chunks) ==
    IF chunks = <<>> THEN <<>> ELSE Head(chunks) \o Flatten(Tail(chunks))

\* The bytes on their way to endpoint e: its carry buffer, then the chunks
\* queued for it
Undelivered(e) == buf[e] \o Flatten(chan[Peer(e)])

\* C3: the bytes written to one end, in any number of writes, reach the
\* peer's reads exactly and in order, for read buffers of any non-zero size:
\* what the peer has read, followed by what is on its way to it, is what was
\* written (nothing lost, reordered or duplicated), and once the writer has
\* closed its write half and everything was read, a read returns 0.
C3_StreamDelivery ==
    \A e \in Ends :
        ~dropped[e]
            => /\ received[e] \o Undelivered(e) = written[Peer(e)]
               /\ \A n \in 1..MaxBuf, first_len \in FirstLens(e) :
                     LET c == poll_read_call(e, n, first_len)
                     IN  /\ (c.res = "Ready" /\ Undelivered(e) # <<>>)
                            => c.data = SubSeq(Undelivered(e), 1, c.ret)
                         /\ (ChannelClosed(e) /\ Undelivered(e) = <<>>)
                            => (c.res = "Ready" /\ c.ret = 0)

\* C3 witness: the client wrote MaxWritten bytes and closed its write half;
\* the server has read them all, and its next read returns 0.
C3_Witness ==
    /\ poll_read_call("server", 1, 0).res = "Ready"
    /\ poll_read_call("server", 1, 0).ret = 0
    /\ sender["client"] = "closed"
    /\ ~dropped["client"]
    /\ Len(written["client"]) = MaxWritten
    /\ received["server"] = written["client"]
    /\ Undelivered("server") = <<>>

\* C12: once an endpoint has closed its write half, every write on it fails
\* (BrokenPipe) and queues nothing for the peer, while its read side goes on:
\* the peer's writes are still accepted while the peer's own write half is
\* open, what the endpoint has read followed by what is on its way to it is
\* what the peer wrote, and each read returns the next bytes on their way.
C12_WriteAfterClose ==
    \A e \in Ends :
        (sender[e] = "closed" /\ ~dropped[e])
            => /\ \A len \in 0..MaxWritten :
                     LET c == poll_write_call(e, NewBytes(e, len))
                     IN  /\ c.res = map_err
                         /\ c.chan = chan[e]
               /\ (sender[Peer(e)] = "open" /\ ~dropped[Peer(e)])
                     => \A len \in 0..MaxWritten :
                           LET c == poll_write_call(Peer(e), NewBytes(Peer(e), len))
                           IN  /\ c.res = "Ok"
                               /\ c.ret = len
                               /\ c.chan = Append(chan[Peer(e)], NewBytes(Peer(e), len))
               /\ received[e] \o Undelivered(e) = written[Peer(e)]
               /\ Undelivered(e) # <<>>
                     => \A n \in 1..MaxBuf, first_len \in FirstLens(e) :
                           LET c == poll_read_call(e, n, first_len)
                           IN  /\ c.res = "Ready"
                               /\ c.data = SubSeq(Undelivered(e), 1, c.ret)

\* C12 witness: the client closed its write half without having written;
\* the server, still open, has written MaxWritten bytes, of which the client
\* has read some and the rest is on its way.
C12_Witness ==
    /\ sender["client"] = "closed"
    /\ written["client"] = <<>>
    /\ sender["server"] = "open"
    /\ ~dropped["client"] /\ ~dropped["server"]
    /\ Len(written["server"]) = MaxWritten
    /\ received["client"] # <<>>
    /\ Undelivered("client") # <<>>
    /\ poll_write_call("client", <<1>>).res = map_err

\* C33: a read with a non-empty buffer returns 0 only at the end of the
\* stream, that is when the peer's write half is closed and every byte the
\* peer wrote has been returned; while the peer's write half is open no read
\* returns 0, whatever the peer wrote (a write of zero bytes included).
C33_ZeroOnlyAtEof ==
    \A e \in Ends :
        ~dropped[e]
            => \A n \in 1..MaxBuf, first_len \in FirstLens(e) :
                  LET c == poll_read_call(e, n, first_len)
                  IN  (c.res = "Ready" /\ c.ret = 0)
                         => /\ ChannelClosed(e)
                            /\ received[e] = written[Peer(e)]

\* C13: shutdown(how) completes with Ok for every direction, and for Write
\* or Both it closes the sender half, what was written staying queued for
\* the peer.
C13_ShutdownClosesSender ==
    \A e \in Ends, how \in Shutdown :
        ~dropped[e]
            => LET c == shutdown_call(e, how)
               IN  /\ c.res = "Ok"
                   /\ how \in {"Write", "Both"} => c.sender = "closed"
                   /\ c.chan = chan[e]

\* ------------------------------------------------------------------------
\* The controller: Controller::run_stream (src/controller.rs)
\* ------------------------------------------------------------------------

\* A config either builds ("good") or makes builder.build fail ("bad")
Configs == {"good", "bad"}

InitController ==
    /\ ctl_pc = "first_pull"
    /\ state = "Idle"
    /\ config = "none"
    /\ new_config = "none"
    /\ serve = "none"
    /\ generation = 0
    /\ tasks = [g \in 1..MaxConfigs |-> 0]
    /\ result = "none"
    /\ stream_state = "open"
    /\ pulled = 0

\* What a poll of the caller's stream can yield now: Some(Ok(cfg)) or
\* Some(Err(e)) while the stream is open
Yields ==
    IF stream_state = "open" /\ pulled < MaxConfigs
    THEN {[kind |-> "item", cfg |-> c] : c \in Configs} \cup {[kind |-> "error"]}
    ELSE {}

\* The outcomes of timeout(1 s, config_stream.try_next()): an open stream
\* yields in time or not; a stream that has ended yields None.
FirstPullOutcomes ==
    IF stream_state = "ended" THEN {[kind |-> "end"]}
    ELSE Yields \cup {[kind |-> "timeout"]}

\* The first pull that takes the end of the stream for a normal return
first_pull_call_lenient(o) ==
    IF o.kind = "item"
    THEN [pc |-> "build", config |-> o.cfg, result |-> "none"]
    ELSE IF o.kind = "error"
    THEN [pc |-> "returned", config |-> "none", result |-> "Err_first_config"]
    ELSE IF o.kind = "end"
    THEN [pc |-> "returned", config |-> "none", result |-> "Ok"]
    ELSE [pc |-> "returned", config |-> "none", result |-> "Err_empty"]

\* run_stream, the match on the first pull: Ok(Ok(Some(cfg))) goes on to
\* the loop, Ok(Err(e)) returns e.context("Failed to get first config."),
\* Err(_) (the timeout) and Ok(Ok(None)) return "The config_stream is
\* empty, can not start."
first_pull_call(o) ==
    IF o.kind = "item"
    THEN [pc |-> "build", config |-> o.cfg, result |-> "none"]
    ELSE IF o.kind = "error"
    THEN [pc |-> "returned", config |-> "none", result |-> "Err_first_config"]
    ELSE [pc |-> "returned", config |-> "none", result |-> "Err_empty"]

Pulls(o) == IF o.kind \in {"item", "error"} THEN pulled + 1 ELSE pulled

run_stream_first_pull ==
    /\ ctl_pc = "first_pull"
    /\ \E o \in FirstPullOutcomes :
          LET c == first_pull_call(o)
          IN  /\ ctl_pc' = c.pc
              /\ config' = c.config
              /\ result' = c.result
              /\ pulled' = Pulls(o)
    /\ UNCHANGED <<state, new_config, serve, generation, tasks, stream_state>>
    /\ UNCHANGED notCtlVars

\* self.inner.read().await.builder.build(self, config)?
run_stream_build ==
    /\ ctl_pc = "build"
    /\ IF config = "bad"
       THEN ctl_pc' = "returned" /\ result' = "Err_build"
       ELSE ctl_pc' = "set_running" /\ result' = result
    /\ UNCHANGED <<state, config, new_config, serve, generation, tasks,
                   stream_state, pulled>>
    /\ UNCHANGED notCtlVars

\* self.inner.write().await.state = State::Running(..), then run_fut is
\* made and the race starts polling it
run_stream_set_running ==
    /\ ctl_pc = "set_running"
    /\ state' = "Running"
    /\ generation' = generation + 1
    /\ serve' = "serving"
    /\ ctl_pc' = "select"
    /\ UNCHANGED <<config, new_config, tasks, result, stream_state, pulled>>
    /\ UNCHANGED notCtlVars

\* The outcomes of try_select(run_fut, config_stream.try_next()). The stream
\* is config_stream.chain(stream::pending()) by now: when the caller's
\* stream ends the chain goes on to the pending stream, so the pull yields
\* an item or an error, or nothing; never None.
SelectOutcomes == {[kind |-> "serve_ok"], [kind |-> "serve_err"]} \cup Yields

\* The match on the race that returns the error of the serve future
select_call_propagating(o) ==
    IF o.kind = "serve_ok"
    THEN [pc |-> "wait_config", serve |-> "completed_ok", new_config |-> "none"]
    ELSE IF o.kind = "serve_err"
    THEN [pc |-> "set_idle", serve |-> "completed_err", new_config |-> "Err_serve"]
    ELSE IF o.kind = "item"
    THEN [pc |-> "set_idle", serve |-> serve, new_config |-> o.cfg]
    ELSE IF o.kind = "end"
    THEN [pc |-> "set_idle", serve |-> serve, new_config |-> "None"]
    ELSE [pc |-> "set_idle", serve |-> serve, new_config |-> "Err"]

\* run_stream, the match on the race: when the serve future completes, with
\* Ok or with Err, the loop goes on to cfg_fut.await; when the stream yields
\* first, new_config is what it yielded.
select_call(o) ==
    IF o.kind = "serve_ok"
    THEN [pc |-> "wait_config", serve |-> "completed_ok", new_config |-> "none"]
    ELSE IF o.kind = "serve_err"
    THEN [pc |-> "wait_config", serve |-> "completed_err", new_config |-> "none"]
    ELSE IF o.kind = "item"
    THEN [pc |-> "set_idle", serve |-> serve, new_config |-> o.cfg]
    ELSE IF o.kind = "end"
    THEN [pc |-> "set_idle", serve |-> serve, new_config |-> "None"]
    ELSE [pc |-> "set_idle", serve |-> serve, new_config |-> "Err"]

run_stream_select ==
    /\ ctl_pc = "select"
    /\ \E o \in SelectOutcomes :
          LET c == select_call(o)
          IN  /\ ctl_pc' = c.pc
              /\ serve' = c.serve
              /\ new_config' = c.new_config
              /\ pulled' = Pulls(o)
    /\ UNCHANGED <<state, config, generation, tasks, result, stream_state>>
    /\ UNCHANGED notCtlVars

\* cfg_fut.await after the serve future has completed: the pull of the
\* chained stream that was pending in the race
run_stream_wait_config ==
    /\ ctl_pc = "wait_config"
    /\ \E o \in Yields :
          /\ new_config' = select_call(o).new_config
          /\ pulled' = Pulls(o)
    /\ ctl_pc' = "set_idle"
    /\ UNCHANGED <<state, config, serve, generation, tasks, result, stream_state>>
    /\ UNCHANGED notCtlVars

\* The end of the loop body: new_config? and the match on it
set_idle_call(nc) ==
    IF nc \in {"Err", "Err_serve"}
    THEN [pc |-> "returned", config |-> config,
          result |-> IF nc = "Err" THEN "Err_stream" ELSE nc]
    ELSE IF nc = "None"
    THEN [pc |-> "returned", config |-> config, result |-> "Ok"]
    ELSE [pc |-> "build", config |-> nc, result |-> result]

\* A loop body that applies ? to new_config before it writes the state
state_after_race_on_success(nc) ==
    IF nc \in {"Err", "Err_serve"} THEN state ELSE "Idle"

\* self.inner.write().await.state = State::Idle, which comes before the ?
\* on new_config: the state is written whatever the race has yielded
state_after_race(nc) == "Idle"

\* self.inner.write().await.state = State::Idle and the end of the loop
\* body, where run_fut goes out of scope
run_stream_set_idle ==
    /\ ctl_pc = "set_idle"
    /\ state' = state_after_race(new_config)
    /\ serve' = "none"
    /\ LET c == set_idle_call(new_config)
       IN  /\ ctl_pc' = c.pc
           /\ config' = c.config
           /\ result' = c.result
    /\ new_config' = "none"
    /\ UNCHANGED <<generation, tasks, stream_state, pulled>>
    /\ UNCHANGED notCtlVars

\* The caller's config stream comes to its end
config_stream_ends ==
    /\ ctl_pc # "returned"
    /\ stream_state = "open"
    /\ stream_state' = "ended"
    /\ UNCHANGED <<ctl_pc, state, config, new_config, serve, generation, tasks,
                   result, pulled>>
    /\ UNCHANGED notCtlVars

RECURSIVE SumTo(_, _)
SumTo(f, n) == IF n = 0 THEN 0 ELSE f[n] + SumTo(f, n - 1)

\* A server's accept loop, polled inside run_fut (ForwardServer::
\* serve_listener): it accepts a connection and hands it to tokio::spawn,
\* dropping the JoinHandle.
serve_listener_spawn ==
    /\ ctl_pc = "select"
    /\ serve = "serving"
    /\ SumTo(tasks, MaxConfigs) < MaxTasks
    /\ tasks' = [tasks EXCEPT ![generation] = @ + 1]
    /\ UNCHANGED <<ctl_pc, state, config, new_config, serve, generation, result,
                   stream_state, pulled>>
    /\ UNCHANGED notCtlVars

\* A spawned task's serve_connection comes to its end (the relay is over or
\* has failed)
serve_connection_ends(g) ==
    /\ tasks[g] > 0
    /\ tasks' = [tasks EXCEPT ![g] = @ - 1]
    /\ UNCHANGED <<ctl_pc, state, config, new_config, serve, generation, result,
                   stream_state, pulled>>
    /\ UNCHANGED notCtlVars

\* The steps of run_stream itself
RunStreamNext ==
    \/ run_stream_first_pull
    \/ run_stream_build
    \/ run_stream_set_running
    \/ run_stream_select
    \/ run_stream_wait_config
    \/ run_stream_set_idle

NextController ==
    \/ RunStreamNext
    \/ config_stream_ends
    \/ serve_listener_spawn
    \/ \E g \in 1..MaxConfigs : serve_connection_ends(g)

\* ------------------------------------------------------------------------
\* Properties of the controller (checked under SpecController)
\* ------------------------------------------------------------------------

\* C15: the state is Running only while the topology is being served, or
\* while the step that sets it Idle is the next one of run_stream: once the
\* serve future has completed, it is not Running while run_stream waits for
\* a further config.
C15_RunningOnlyWhileServing ==
    state = "Running" => (serve = "serving" \/ ctl_pc = "set_idle")

\* The first pull has delivered a config
FirstConfigDelivered == ctl_pc # "first_pull" /\ result \notin {"Err_first_config", "Err_empty"}

\* C16: once the config stream has ended after delivering a config,
\* run_stream has returned or still has a step to take (build, the end of
\* serving, the teardown, the return): it never waits for good.
C16_StreamEndReturns ==
    (stream_state = "ended" /\ FirstConfigDelivered)
        => (ctl_pc = "returned" \/ ENABLED RunStreamNext)

\* The g-th topology has been torn down because a new config arrived
TornDownByReload(g) ==
    \/ g < generation
    \/ g = generation /\ serve = "none" /\ ctl_pc \in {"build", "set_running"}

\* C17: no per-connection task spawned under a topology that a new config
\* has replaced is still relaying.
C17_OldTasksAborted ==
    \A g \in 1..MaxConfigs : TornDownByReload(g) => tasks[g] = 0

\* The results of a failed first pull
FirstPullErrors == {"Err_first_config", "Err_empty"}

\* C18: a first pull that yields the end of the stream, an error or nothing
\* within the bounded wait makes run_stream return an error, and a
\* run_stream that has returned such an error has built no topology and
\* has never set the state Running.
C18_FirstPullFailure ==
    /\ ctl_pc = "first_pull"
          => \A o \in {[kind |-> "end"], [kind |-> "error"], [kind |-> "timeout"]} :
                /\ first_pull_call(o).pc = "returned"
                /\ first_pull_call(o).result \in FirstPullErrors
    /\ result \in FirstPullErrors
          => /\ ctl_pc = "returned"
             /\ generation = 0
             /\ state = "Idle"
             /\ serve = "none"
             /\ config = "none"
             /\ \A g \in 1..MaxConfigs : tasks[g] = 0
    /\ (ctl_pc = "returned" /\ generation = 0 /\ result # "Err_build")
          => result \in FirstPullErrors

\* C18 witness: the stream was open but yielded nothing within the bounded
\* wait, and run_stream has returned.
C18_Witness ==
    /\ ctl_pc = "returned"
    /\ result = "Err_empty"
    /\ stream_state = "open"
    /\ pulled = 0

\* C19: an error of the serve future does not make run_stream return: the
\* loop goes on to wait for the next config, and a config that arrives is
\* built from. The errors run_stream returns are those of the config stream
\* (a failed first pull, an error the stream yields) and of a build.
C19_ServeErrorRetried ==
    /\ ctl_pc = "select"
          => /\ select_call([kind |-> "serve_err"]).pc = "wait_config"
             /\ select_call([kind |-> "serve_err"]).new_config = "none"
    /\ serve = "completed_err"
          => /\ ctl_pc \in {"wait_config", "set_idle"}
             /\ result = "none"
             /\ new_config \in {"none", "Err"} \cup Configs
    /\ (serve = "completed_err" /\ ctl_pc = "set_idle" /\ new_config \in Configs)
          => /\ set_idle_call(new_config).pc = "build"
             /\ set_idle_call(new_config).config = new_config
    /\ (ctl_pc = "returned" /\ result # "Ok")
          => result \in {"Err_first_config", "Err_empty", "Err_stream", "Err_build"}

\* C19 witness: the first topology's serve future has failed, run_stream
\* has waited, and the config that then arrived is about to be built from.
C19_Witness ==
    /\ serve = "completed_err"
    /\ ctl_pc = "set_idle"
    /\ new_config = "good"
    /\ generation = 1

\* C34: whenever run_stream has returned, with Ok or with any of its
\* errors, the state is Idle; the state is Running only from the write
\* that follows a successful build to the write of Idle that ends the race
\* step (the race itself and the wait for the rest of the config pull), and
\* then the config being served is one that built.
C34_IdleOnReturn ==
    /\ ctl_pc = "returned"
          => /\ state = "Idle"
             /\ result \in {"Ok", "Err_first_config", "Err_empty",
                            "Err_build", "Err_stream"}
    /\ state = "Running"
          => /\ ctl_pc \in {"select", "wait_config", "set_idle"}
             /\ generation >= 1
             /\ config = "good"
    /\ ctl_pc \in {"first_pull", "build", "set_running"} => state = "Idle"
    /\ ctl_pc = "set_idle"
          => \A nc \in {"Err", "None"} \cup Configs :
                state_after_race(nc) = "Idle"

\* C34 witness: a topology was built and served, the config stream then
\* yielded an error, and run_stream has returned it.
C34_Witness ==
    /\ ctl_pc = "returned"
    /\ result = "Err_stream"
    /\ generation >= 1
    /\ state = "Idle"

\* ------------------------------------------------------------------------
\* The event plane: fn process (src/controller.rs)
\* ------------------------------------------------------------------------

\* BatchEvent::with_capacity(16): the capacity the batch vector starts with
BatchCapacity == 16

\* The addresses asked of the instrumented net
NetAddrs == {"example.com:80", "10.0.0.1:443"}

\* What the inner net answers: the call's Ok, or its error
InnerResults == {"Ok", "Err"}

\* No call was made on the instrumented net yet
NoNetCall == [op |-> "none", addr |-> "none", inner |-> "none", res |-> "none",
              pushed |-> <<>>]

InitEvents ==
    /\ ev_queue = <<>>
    /\ ev_emitted = 0
    /\ ev_senders = "open"
    /\ drainer_pc = "recv"
    /\ events = <<>>
    /\ batch = <<>>
    /\ net_last = NoNetCall

\* An instrumented net pushes an event: UnboundedSender::send never waits
emit ==
    /\ ev_senders = "open"
    /\ ev_emitted < MaxEvents
    /\ ev_emitted' = ev_emitted + 1
    /\ ev_queue' = Append(ev_queue, ev_emitted + 1)
    /\ UNCHANGED <<ev_senders, drainer_pc, events, batch, net_last>>
    /\ UNCHANGED notEvVars

\* The controller and every instrumented net are dropped
drop_event_senders ==
    /\ ev_senders = "open"
    /\ ev_senders' = "closed"
    /\ UNCHANGED <<ev_queue, ev_emitted, drainer_pc, events, batch, net_last>>
    /\ UNCHANGED notEvVars

\* A receiver that reports the close as soon as no sender is left, events
\* waiting or not
recv_now_or_never_hasty ==
    IF ev_senders = "closed" THEN "closed"
    ELSE IF ev_queue # <<>> THEN "some"
    ELSE "none"

\* rx.recv().now_or_never(): "some" with an event waiting, "closed" (Some(None))
\* with none waiting and no sender left, "none" otherwise
recv_now_or_never ==
    IF ev_queue # <<>> THEN "some"
    ELSE IF ev_senders = "closed" THEN "closed"
    ELSE "none"

\* process, the head of the loop: the first event of a batch, the break, or
\* the sleep
process_recv ==
    /\ drainer_pc = "recv"
    /\ IF recv_now_or_never = "some"
       THEN /\ events' = <<Head(ev_queue)>>
            /\ ev_queue' = Tail(ev_queue)
            /\ drainer_pc' = "drain"
       ELSE /\ drainer_pc' = IF recv_now_or_never = "closed" THEN "done" ELSE "sleep"
            /\ UNCHANGED <<events, ev_queue>>
    /\ UNCHANGED <<ev_emitted, ev_senders, batch, net_last>>
    /\ UNCHANGED notEvVars

\* sleep(Duration::from_millis(100)).await; continue
process_sleep ==
    /\ drainer_pc = "sleep"
    /\ drainer_pc' = "recv"
    /\ UNCHANGED <<ev_queue, ev_emitted, ev_senders, events, batch,
                   net_last>>
    /\ UNCHANGED notEvVars

\* process, the while let loop and the send: each event waiting is pushed
\* onto events, whatever their number; when none waits, the batch is sent.
process_drain ==
    /\ drainer_pc = "drain"
    /\ IF recv_now_or_never = "some"
       THEN /\ events' = Append(events, Head(ev_queue))
            /\ ev_queue' = Tail(ev_queue)
            /\ UNCHANGED <<drainer_pc, batch>>
       ELSE /\ batch' = events
            /\ events' = <<>>
            /\ drainer_pc' = "recv"
            /\ UNCHANGED ev_queue
    /\ UNCHANGED <<ev_emitted, ev_senders, net_last>>
    /\ UNCHANGED notEvVars

\* wrapper::TcpStream::new(tcp, sender): wraps the stream, pushes nothing
wrapper_TcpStream_new(tcp) == [inner |-> tcp, pushed |-> <<>>]

\* wrapper::TcpStream::send(event_type): pushes that one event
wrapper_TcpStream_send(event_type) == <<event_type>>

\* ControllerNet::tcp_connect that announces the connection before it asks
\* the inner net
ControllerNet_tcp_connect_call_eager(addr, inner) ==
    IF inner = "Ok"
    THEN [res |-> "Ok", stream |-> wrapper_TcpStream_new("tcp"),
          pushed |-> wrapper_TcpStream_send([type |-> "NewTcp", addr |-> addr])]
    ELSE [res |-> inner, stream |-> "none",
          pushed |-> wrapper_TcpStream_send([type |-> "NewTcp", addr |-> addr])]

\* ControllerNet::tcp_connect: the inner net's error leaves through `?`
\* before anything is pushed; on success the stream is wrapped and the one
\* event NewTcp(addr) is pushed
ControllerNet_tcp_connect_call(addr, inner) ==
    IF inner = "Ok"
    THEN [res |-> "Ok", stream |-> wrapper_TcpStream_new("tcp"),
          pushed |-> wrapper_TcpStream_new("tcp").pushed
                     \o wrapper_TcpStream_send([type |-> "NewTcp", addr |-> addr])]
    ELSE [res |-> inner, stream |-> "none", pushed |-> <<>>]

\* ControllerNet::tcp_bind: self.net.tcp_bind(ctx, addr).await
ControllerNet_tcp_bind_call(addr, inner) ==
    [res |-> inner, stream |-> "none", pushed |-> <<>>]

\* ControllerNet::udp_bind: self.net.udp_bind(ctx, addr).await
ControllerNet_udp_bind_call(addr, inner) ==
    [res |-> inner, stream |-> "none", pushed |-> <<>>]

\* A tcp_connect on the instrumented net: its events go onto the queue,
\* numbered like every other
ControllerNet_tcp_connect(addr, inner) ==
    /\ ev_senders = "open"
    /\ ev_emitted + Len(ControllerNet_tcp_connect_call(addr, inner).pushed) <= MaxEvents
    /\ ev_emitted' = ev_emitted + Len(ControllerNet_tcp_connect_call(addr, inner).pushed)
    /\ ev_queue' = ev_queue \o [i \in 1..Len(ControllerNet_tcp_connect_call(addr, inner).pushed) |-> ev_emitted + i]
    /\ net_last' = [op |-> "tcp_connect", addr |-> addr, inner |-> inner,
                    res |-> ControllerNet_tcp_connect_call(addr, inner).res,
                    pushed |-> ControllerNet_tcp_connect_call(addr, inner).pushed]
    /\ UNCHANGED <<ev_senders, drainer_pc, events, batch>>
    /\ UNCHANGED notEvVars

\* A tcp_bind on the instrumented net
ControllerNet_tcp_bind(addr, inner) ==
    /\ ev_senders = "open"
    /\ ev_emitted + Len(ControllerNet_tcp_bind_call(addr, inner).pushed) <= MaxEvents
    /\ ev_emitted' = ev_emitted + Len(ControllerNet_tcp_bind_call(addr, inner).pushed)
    /\ ev_queue' = ev_queue \o [i \in 1..Len(ControllerNet_tcp_bind_call(addr, inner).pushed) |-> ev_emitted + i]
    /\ net_last' = [op |-> "tcp_bind", addr |-> addr, inner |-> inner,
                    res |-> ControllerNet_tcp_bind_call(addr, inner).res,
                    pushed |-> ControllerNet_tcp_bind_call(addr, inner).pushed]
    /\ UNCHANGED <<ev_senders, drainer_pc, events, batch>>
    /\ UNCHANGED notEvVars

\* A udp_bind on the instrumented net
ControllerNet_udp_bind(addr, inner) ==
    /\ ev_senders = "open"
    /\ ev_emitted + Len(ControllerNet_udp_bind_call(addr, inner).pushed) <= MaxEvents
    /\ ev_emitted' = ev_emitted + Len(ControllerNet_udp_bind_call(addr, inner).pushed)
    /\ ev_queue' = ev_queue \o [i \in 1..Len(ControllerNet_udp_bind_call(addr, inner).pushed) |-> ev_emitted + i]
    /\ net_last' = [op |-> "udp_bind", addr |-> addr, inner |-> inner,
                    res |-> ControllerNet_udp_bind_call(addr, inner).res,
                    pushed |-> ControllerNet_udp_bind_call(addr, inner).pushed]
    /\ UNCHANGED <<ev_senders, drainer_pc, events, batch>>
    /\ UNCHANGED notEvVars

NextEvents ==
    \/ emit
    \/ drop_event_senders
    \/ process_recv
    \/ process_sleep
    \/ process_drain
    \/ \E addr \in NetAddrs, inner \in InnerResults :
           ControllerNet_tcp_connect(addr, inner)
    \/ \E addr \in NetAddrs, inner \in InnerResults :
           ControllerNet_tcp_bind(addr, inner)
    \/ \E addr \in NetAddrs, inner \in InnerResults :
           ControllerNet_udp_bind(addr, inner)

\* ------------------------------------------------------------------------
\* Properties of the event plane (checked under SpecEvents)
\* ------------------------------------------------------------------------

\* C20: every batch the drainer publishes holds at least 1 and at most 16
\* events.
C20_BatchSize ==
    /\ drainer_pc = "drain" => Len(events) >= 1
    /\ batch # <<>> => (Len(batch) >= 1 /\ Len(batch) <= BatchCapacity)


\* C23: a tcp_connect on the instrumented net pushes exactly the one event
\* NewTcp(addr) with the address asked for when the inner net succeeds and
\* no event when it fails; tcp_bind and udp_bind push no event and return
\* what the inner net answered.
C23_InstrumentedNetEvents ==
    /\ net_last.op = "tcp_connect" =>
           /\ net_last.res = net_last.inner
           /\ net_last.inner = "Ok" =>
                  net_last.pushed = <<[type |-> "NewTcp", addr |-> net_last.addr]>>
           /\ net_last.inner # "Ok" => net_last.pushed = <<>>
    /\ net_last.op \in {"tcp_bind", "udp_bind"} =>
           /\ net_last.res = net_last.inner
           /\ net_last.pushed = <<>>

\* A tcp_connect succeeded on the inner net and its event is on the queue
C23_Witness ==
    /\ net_last.op = "tcp_connect"
    /\ net_last.inner = "Ok"
    /\ net_last.pushed # <<>>
    /\ ev_queue # <<>>
    /\ ev_queue[Len(ev_queue)] = ev_emitted

\* The events numbered from a + 1 to b, in order
Run(a, b) == [i \in 1..(b - a) |-> a + i]

\* The number of events the drainer has taken from the queue
Taken == ev_emitted - Len(ev_queue)

\* The number of events in the batches sent so far
Batched == Taken - Len(events)

\* C35: events being numbered in queue order, the last batch sent ends with
\* the last event batched, the batch under construction goes on from there
\* and the queue goes on from that (so every event taken is in one batch
\* only, and the order of the queue is kept inside a batch and from one
\* batch to the next); a batch that is sent is never empty; the drainer has
\* stopped only when no sender is left and every event queued is in a batch
\* that was sent.
C35_DrainerBatches ==
    /\ ev_queue = Run(Taken, ev_emitted)
    /\ events = Run(Batched, Taken)
    /\ batch = <<>> <=> Batched = 0
    /\ batch = Run(Batched - Len(batch), Batched)
    /\ drainer_pc = "drain" <=> events # <<>>
    /\ drainer_pc = "done"
          => /\ ev_senders = "closed"
             /\ ev_queue = <<>>
             /\ Batched = ev_emitted

\* C35 witness: the drainer has stopped after the close, having sent the
\* events in more than one batch, the last of them of several events.
C35_Witness ==
    /\ drainer_pc = "done"
    /\ ev_emitted >= 3
    /\ Len(batch) >= 2
    /\ Len(batch) < ev_emitted

\* ------------------------------------------------------------------------
\* The event broadcast (src/controller.rs, Controller::new, process,
\* get_subscriber)
\* ------------------------------------------------------------------------

\* broadcast::channel(16): the number of batches the channel retains
BroadcastCapacity == 16

Subscribers == {"s1", "s2"}

InitBroadcast ==
    /\ bc_sends = 0
    /\ bc_pos = 0
    /\ bc_ring = <<>>
    /\ rx_status = [s \in Subscribers |-> "none"]
    /\ rx_next = [s \in Subscribers |-> 0]
    /\ rx_start = [s \in Subscribers |-> 0]
    /\ rx_received = [s \in Subscribers |-> <<>>]

\* The receivers that exist
LiveReceivers == {s \in Subscribers : rx_status[s] = "live"}

\* The last n elements of a sequence
LastN(q, n) == IF Len(q) <= n THEN q ELSE SubSeq(q, Len(q) - n + 1, Len(q))

\* The receiver that is furthest behind
SlowestNext == CHOOSE n \in {rx_next[s] : s \in LiveReceivers} :
                   \A s \in LiveReceivers : n <= rx_next[s]

\* A send that refuses to overwrite a batch some receiver has not read
broadcast_send_call_bounded(b) ==
    IF LiveReceivers = {}
    THEN [res |-> "Err", ring |-> bc_ring, pos |-> bc_pos]
    ELSE IF bc_pos - SlowestNext >= BroadcastCapacity
    THEN [res |-> "Full", ring |-> bc_ring, pos |-> bc_pos]
    ELSE [res |-> "Ok", ring |-> LastN(Append(bc_ring, b), BroadcastCapacity),
          pos |-> bc_pos + 1]

\* sender.send(events) in process: Err with no receiver (the batch is
\* given back and .ok() drops it), else the batch is stored, the oldest
\* retained batch making room for it.  No branch waits for a receiver.
broadcast_send_call(b) ==
    IF LiveReceivers = {}
    THEN [res |-> "Err", ring |-> bc_ring, pos |-> bc_pos]
    ELSE [res |-> "Ok", ring |-> LastN(Append(bc_ring, b), BroadcastCapacity),
          pos |-> bc_pos + 1]

broadcast_send ==
    /\ bc_sends < MaxBatches
    /\ bc_sends' = bc_sends + 1
    /\ bc_ring' = broadcast_send_call(bc_sends + 1).ring
    /\ bc_pos' = broadcast_send_call(bc_sends + 1).pos
    /\ UNCHANGED <<rx_status, rx_next, rx_start, rx_received>>
    /\ UNCHANGED notBcVars

\* sender.subscribe() that hands out a receiver placed at the oldest
\* retained batch
Sender_subscribe_replay == bc_pos - Len(bc_ring)

\* sender.subscribe(): the new receiver is placed at the tail, past every
\* batch stored so far
Sender_subscribe == bc_pos

\* Controller::get_subscriber.  The subscribers are named in the order they
\* subscribe: "s1" is the first.
get_subscriber(s) ==
    /\ rx_status[s] = "none"
    /\ s = "s2" => rx_status["s1"] # "none"
    /\ rx_status' = [rx_status EXCEPT ![s] = "live"]
    /\ rx_next' = [rx_next EXCEPT ![s] = Sender_subscribe]
    /\ rx_start' = [rx_start EXCEPT ![s] = bc_sends]
    /\ UNCHANGED <<bc_sends, bc_pos, bc_ring, rx_received>>
    /\ UNCHANGED notBcVars

\* The number of stored batches the channel no longer retains
Overwritten == bc_pos - Len(bc_ring)

\* Receiver::recv, polled once: Lagged(n) when the batch the receiver is at
\* was overwritten (the receiver moves to the oldest retained batch), the
\* next batch when one is stored, Pending otherwise.  The controller keeps
\* the sender, so the channel is never closed.
Receiver_recv_call(s) ==
    IF rx_next[s] < Overwritten
    THEN [res |-> "Lagged", n |-> Overwritten - rx_next[s], batch |-> 0,
          next |-> Overwritten]
    ELSE IF rx_next[s] < bc_pos
    THEN [res |-> "Ok", n |-> 0, batch |-> bc_ring[rx_next[s] - Overwritten + 1],
          next |-> rx_next[s] + 1]
    ELSE [res |-> "Pending", n |-> 0, batch |-> 0, next |-> rx_next[s]]

Receiver_recv(s) ==
    /\ rx_status[s] = "live"
    /\ Receiver_recv_call(s).res # "Pending"
    /\ rx_next' = [rx_next EXCEPT ![s] = Receiver_recv_call(s).next]
    /\ rx_received' = [rx_received EXCEPT ![s] =
           IF Receiver_recv_call(s).res = "Ok"
           THEN Append(@, Receiver_recv_call(s).batch) ELSE @]
    /\ UNCHANGED <<bc_sends, bc_pos, bc_ring, rx_status, rx_start>>
    /\ UNCHANGED notBcVars

\* The subscriber drops its receiver, and what it held with it
drop_subscriber(s) ==
    /\ rx_status[s] = "live"
    /\ rx_status' = [rx_status EXCEPT ![s] = "dropped"]
    /\ rx_next' = [rx_next EXCEPT ![s] = 0]
    /\ rx_start' = [rx_start EXCEPT ![s] = 0]
    /\ rx_received' = [rx_received EXCEPT ![s] = <<>>]
    /\ UNCHANGED <<bc_sends, bc_pos, bc_ring>>
    /\ UNCHANGED notBcVars

NextBroadcast ==
    \/ broadcast_send
    \/ \E s \in Subscribers : get_subscriber(s)
    \/ \E s \in Subscribers : Receiver_recv(s)
    \/ \E s \in Subscribers : drop_subscriber(s)

\* ------------------------------------------------------------------------
\* Properties of the event broadcast (checked under SpecBroadcast)
\* ------------------------------------------------------------------------

\* The batches a subscriber received are in the order they were sent, none
\* twice
InSendOrder(q) == \A i, j \in 1..Len(q) : i < j => q[i] < q[j]

\* C21: what a subscriber receives is, in order, a subsequence of what the
\* drainer published (batches are received in increasing send order, none
\* twice, and each was sent), all of it published after the subscriber
\* subscribed; the batch its next recv returns continues that order.
C21_SubscriberOrder ==
    \A s \in Subscribers :
        /\ InSendOrder(rx_received[s])
        /\ \A i \in 1..Len(rx_received[s]) :
               /\ rx_received[s][i] > rx_start[s]
               /\ rx_received[s][i] <= bc_sends
        /\ (rx_status[s] = "live" /\ Receiver_recv_call(s).res = "Ok") =>
               /\ Receiver_recv_call(s).batch > rx_start[s]
               /\ \A i \in 1..Len(rx_received[s]) :
                      rx_received[s][i] < Receiver_recv_call(s).batch

\* A subscriber that subscribed after batches were published, fell behind
\* by more than the channel retains, and went on receiving past the gap
C21_Witness ==
    \E s \in Subscribers :
        /\ rx_start[s] >= 1
        /\ Len(rx_received[s]) >= 2
        /\ \E i \in 1..(Len(rx_received[s]) - 1) :
               rx_received[s][i + 1] > rx_received[s][i] + 1

\* A subscriber is frozen when it is live and the channel has stored more
\* past it than it retains
Frozen(s) == rx_status[s] = "live" /\ bc_pos - rx_next[s] >= BroadcastCapacity

\* C22: a subscriber that stops receiving blocks nobody: the drainer's send
\* never waits (it returns Ok or Err at once, whatever the receivers have
\* read), it stores the batch whenever a receiver exists, and every
\* subscriber with a stored batch ahead of it gets a batch or a Lagged
\* notice from its next recv, whether or not another subscriber is frozen.
C22_FrozenSubscriberNoBlock ==
    /\ broadcast_send_call(bc_sends + 1).res \in {"Ok", "Err"}
    /\ LiveReceivers # {} =>
           /\ broadcast_send_call(bc_sends + 1).res = "Ok"
           /\ broadcast_send_call(bc_sends + 1).pos = bc_pos + 1
           /\ broadcast_send_call(bc_sends + 1).ring # <<>>
           /\ broadcast_send_call(bc_sends + 1).ring[
                  Len(broadcast_send_call(bc_sends + 1).ring)] = bc_sends + 1
    /\ \A s \in LiveReceivers :
           rx_next[s] < bc_pos => Receiver_recv_call(s).res \in {"Ok", "Lagged"}
    /\ \A s \in LiveReceivers :
           (rx_next[s] < bc_pos /\ ~Frozen(s)) =>
               /\ Receiver_recv_call(s).res = "Ok"
               /\ Receiver_recv_call(s).next = rx_next[s] + 1

\* One subscriber is frozen, batches were sent since it froze, and the other
\* subscriber has received the batch sent last
C22_Witness ==
    \E s, t \in Subscribers :
        /\ s # t
        /\ Frozen(s)
        /\ rx_status[t] = "live"
        /\ rx_received[t] # <<>>
        /\ rx_received[t][Len(rx_received[t])] = bc_sends
        /\ bc_sends > BroadcastCapacity


\* ------------------------------------------------------------------------
\* The remote tunnel server (remote/src/server.rs)
\* ------------------------------------------------------------------------

Channels == 1..MaxChannels

\* The id field of a request or task that holds no id
NoId == -1

\* The ids a TcpAccept request may carry: every id the server can vend
\* within the bound, and one it never vends
ReqIds == {10 * k : k \in 0..MaxVended}

\* CommandRequest
Requests ==
    {[type |-> "TcpConnect", id |-> NoId], [type |-> "TcpBind", id |-> NoId]}
    \cup {[type |-> "TcpAccept", id |-> i] : i \in ReqIds}

\* A task that was not spawned yet
NoTask == [pc |-> "idle", req |-> "none", id |-> NoId, bind_addrs |-> 0, err |-> "none"]

\* Map::new and the state of start before its first iteration
InitRemote ==
    /\ rem_server = "accepting"
    /\ rem_protocol_err = FALSE
    /\ rem_channels = [c \in Channels |-> NoTask]
    /\ rem_map = <<>>
    /\ rem_counter = 0
    /\ rem_vended = <<>>
    /\ rem_consumed = <<>>
    /\ rem_accepted = {}

\* The pcs of a task that ended
Ended == {"done", "failed"}

\* A server that awaits each task and returns its error
RemoteServer_after_task_error_joined(srv) == "stopped"

\* tokio::spawn(process_channel(..)) with the JoinHandle dropped: the Err a
\* task returns reaches nobody, start goes on as it was
RemoteServer_after_task_error(srv) == srv

\* A task that ended: what it read and held is dropped with it.  Kept are
\* how it ended and, for an id that was not found, that id.
EndedTask(t, pc, e) ==
    [pc |-> pc, req |-> "none",
     id |-> IF e = "ID is not found" THEN t.id ELSE NoId,
     bind_addrs |-> 0, err |-> e]

\* process_channel leaves through `?` with the error e: "ID is not found",
\* or "Err" for the error of the call that failed
Fails(c, e) ==
    /\ rem_channels' = [rem_channels EXCEPT ![c] = EndedTask(@, "failed", e)]
    /\ rem_server' = RemoteServer_after_task_error(rem_server)

\* start, one iteration: channel() returned a channel and a task is spawned
\* for it.  The channels are numbered in the order they arrive.
RemoteServer_start_spawn(c) ==
    /\ rem_server = "accepting"
    /\ rem_channels[c].pc = "idle"
    /\ \A d \in Channels : d < c => rem_channels[d].pc # "idle"
    /\ rem_channels' = [rem_channels EXCEPT ![c].pc = "recv"]
    /\ UNCHANGED <<rem_server, rem_protocol_err, rem_map, rem_counter,
                   rem_vended, rem_consumed, rem_accepted>>
    /\ UNCHANGED notRemVars

\* start: self.protocol.channel().await? returned an error
RemoteServer_start_error ==
    /\ rem_server = "accepting"
    /\ rem_server' = "stopped"
    /\ rem_protocol_err' = TRUE
    /\ UNCHANGED <<rem_channels, rem_map, rem_counter, rem_vended, rem_consumed,
                   rem_accepted>>
    /\ UNCHANGED notRemVars

\* channel.recv().await?: the request, or an error
channel_recv(c) ==
    /\ rem_channels[c].pc = "recv"
    /\ \/ \E req \in Requests :
              /\ rem_channels' = [rem_channels EXCEPT
                     ![c].pc = CASE req.type = "TcpConnect" -> "connect"
                                 [] req.type = "TcpBind" -> "bind"
                                 [] req.type = "TcpAccept" -> "get",
                     ![c].req = req.type,
                     ![c].id = req.id]
              /\ UNCHANGED rem_server
       \/ Fails(c, "Err")
    /\ UNCHANGED <<rem_protocol_err, rem_map, rem_counter, rem_vended,
                   rem_consumed, rem_accepted>>
    /\ UNCHANGED notRemVars

\* TcpConnect: net.tcp_connect(..).await?
channel_tcp_connect(c) ==
    /\ rem_channels[c].pc = "connect"
    /\ \/ /\ rem_channels' = [rem_channels EXCEPT ![c].pc = "relay", ![c].req = "none"]
          /\ UNCHANGED rem_server
       \/ Fails(c, "Err")
    /\ UNCHANGED <<rem_protocol_err, rem_map, rem_counter, rem_vended,
                   rem_consumed, rem_accepted>>
    /\ UNCHANGED notRemVars

\* connect_tcp(target, channel.into_inner()).await?; then Ok(()).  The same
\* for TcpConnect and TcpAccept: the request is no longer told apart.
channel_relay(c) ==
    /\ rem_channels[c].pc = "relay"
    /\ \/ /\ rem_channels' = [rem_channels EXCEPT ![c] = EndedTask(@, "done", "none")]
          /\ UNCHANGED rem_server
       \/ Fails(c, "Err")
    /\ UNCHANGED <<rem_protocol_err, rem_map, rem_counter, rem_vended,
                   rem_consumed, rem_accepted>>
    /\ UNCHANGED notRemVars

\* TcpBind: net.tcp_bind(..).await?
channel_tcp_bind(c) ==
    /\ rem_channels[c].pc = "bind"
    /\ \/ /\ rem_channels' = [rem_channels EXCEPT ![c].pc = "send_bind_addr"]
          /\ UNCHANGED rem_server
       \/ Fails(c, "Err")
    /\ UNCHANGED <<rem_protocol_err, rem_map, rem_counter, rem_vended,
                   rem_consumed, rem_accepted>>
    /\ UNCHANGED notRemVars

\* channel.send(BindAddr { addr: listener.local_addr().await? }).await?
channel_send_bind_addr(c) ==
    /\ rem_channels[c].pc = "send_bind_addr"
    /\ \/ /\ rem_channels' = [rem_channels EXCEPT
                 ![c].pc = "accept",
                 ![c].bind_addrs = @ + 1]
          /\ UNCHANGED rem_server
       \/ Fails(c, "Err")
    /\ UNCHANGED <<rem_protocol_err, rem_map, rem_counter, rem_vended,
                   rem_consumed, rem_accepted>>
    /\ UNCHANGED notRemVars

\* An id source that hands out the smallest id the map does not hold
fetch_add_reusing(counter) ==
    LET free == {i \in ReqIds : i \notin DOMAIN rem_map}
        least == CHOOSE i \in free : \A j \in free : i <= j
    IN  [id |-> least, counter |-> counter + 10]

\* self.0 .1.fetch_add(10, Ordering::SeqCst): one atomic step that returns
\* the value before the addition
fetch_add(counter) == [id |-> counter, counter |-> counter + 10]

\* A map with id bound to v, whatever it held under id
MapPut(m, id, v) == [i \in DOMAIN m \cup {id} |-> IF i = id THEN v ELSE m[i]]

\* A map without id
MapDel(m, id) == [i \in DOMAIN m \ {id} |-> m[i]]

\* An insert that stores nothing
DashMap_insert_lost(m, id, tcp) == m

\* self.0 .0.insert(id, tcp)
DashMap_insert(m, id, tcp) == MapPut(m, id, tcp)

\* listener.accept().await? and Map::insert.  Between its fetch_add and its
\* insert only a Map::get of the id just fetched could tell the difference;
\* that get finds nothing, as it does when it runs before the fetch_add, so
\* the two halves are one step here.
channel_accept(c) ==
    /\ rem_channels[c].pc = "accept"
    /\ \/ /\ Len(rem_vended) < MaxVended
          /\ rem_channels' = [rem_channels EXCEPT
                 ![c].pc = "send_accept",
                 ![c].id = fetch_add(rem_counter).id]
          /\ rem_counter' = fetch_add(rem_counter).counter
          /\ rem_vended' = Append(rem_vended, fetch_add(rem_counter).id)
          /\ rem_map' = DashMap_insert(rem_map, fetch_add(rem_counter).id, c)
          /\ UNCHANGED rem_server
       \/ /\ Fails(c, "Err")
          /\ UNCHANGED <<rem_counter, rem_vended, rem_map>>
    /\ UNCHANGED <<rem_protocol_err, rem_consumed, rem_accepted>>
    /\ UNCHANGED notRemVars

\* channel.send(Accept { id, addr }).await?, and back to accept
channel_send_accept(c) ==
    /\ rem_channels[c].pc = "send_accept"
    /\ \/ /\ rem_channels' = [rem_channels EXCEPT ![c].pc = "accept", ![c].id = NoId]
          /\ rem_accepted' = rem_accepted \cup {rem_channels[c].id}
          /\ UNCHANGED rem_server
       \/ /\ Fails(c, "Err")
          /\ UNCHANGED rem_accepted
    /\ UNCHANGED <<rem_protocol_err, rem_map, rem_counter, rem_vended,
                   rem_consumed>>
    /\ UNCHANGED notRemVars

\* A get that leaves the stream in the map
Map_get_peek(m, id) ==
    IF id \in DOMAIN m
    THEN [found |-> TRUE, map |-> m]
    ELSE [found |-> FALSE, map |-> m]

\* Map::get: self.0 .0.remove(&id), one atomic step on the DashMap
Map_get(m, id) ==
    IF id \in DOMAIN m
    THEN [found |-> TRUE, map |-> MapDel(m, id)]
    ELSE [found |-> FALSE, map |-> m]

\* TcpAccept: map.get(id).ok_or(Error::Other("ID is not found"))?
channel_get(c) ==
    /\ rem_channels[c].pc = "get"
    /\ rem_map' = Map_get(rem_map, rem_channels[c].id).map
    /\ IF Map_get(rem_map, rem_channels[c].id).found
       THEN /\ rem_channels' = [rem_channels EXCEPT
                    ![c].pc = "relay", ![c].req = "none", ![c].id = NoId]
            /\ rem_consumed' = Append(rem_consumed, rem_channels[c].id)
            /\ UNCHANGED rem_server
       ELSE /\ Fails(c, "ID is not found")
            /\ UNCHANGED rem_consumed
    /\ UNCHANGED <<rem_protocol_err, rem_counter, rem_vended, rem_accepted>>
    /\ UNCHANGED notRemVars

NextRemote ==
    \/ \E c \in Channels : RemoteServer_start_spawn(c)
    \/ RemoteServer_start_error
    \/ \E c \in Channels : channel_recv(c)
    \/ \E c \in Channels : channel_tcp_connect(c)
    \/ \E c \in Channels : channel_relay(c)
    \/ \E c \in Channels : channel_tcp_bind(c)
    \/ \E c \in Channels : channel_send_bind_addr(c)
    \/ \E c \in Channels : channel_accept(c)
    \/ \E c \in Channels : channel_send_accept(c)
    \/ \E c \in Channels : channel_get(c)

\* ------------------------------------------------------------------------
\* Properties of the remote tunnel server (checked under SpecRemote)
\* ------------------------------------------------------------------------

\* The elements of a sequence
Range(q) == {q[i] : i \in 1..Len(q)}

\* C24: every id is consumed by at most one TcpAccept, whatever the number
\* of TcpAccept requests that carry it; a TcpAccept whose id is not in the
\* map fails with "ID is not found" and leaves the map as it was.
C24_IdConsumedOnce ==
    /\ \A i, j \in 1..Len(rem_consumed) : i # j => rem_consumed[i] # rem_consumed[j]
    /\ Range(rem_consumed) \subseteq Range(rem_vended)
    /\ Range(rem_consumed) \cap DOMAIN rem_map = {}
    /\ \A id \in ReqIds :
           id \notin DOMAIN rem_map =>
               /\ ~Map_get(rem_map, id).found
               /\ Map_get(rem_map, id).map = rem_map
    /\ \A c \in Channels :
           (rem_channels[c].pc = "get" /\ rem_channels[c].id \in Range(rem_consumed)) =>
               ~Map_get(rem_map, rem_channels[c].id).found

\* Besides the TcpBind task whose Accept announced the id, two tasks were
\* spawned: one relays the stream it got for the id, the other asked for the
\* same id and failed with "ID is not found"
C24_Witness ==
    \E b, c, d \in Channels :
        /\ Channels = {b, c, d}
        /\ rem_channels[b].req = "TcpBind"
        /\ rem_channels[b].pc = "accept"
        /\ rem_channels[c].pc = "relay"
        /\ rem_channels[d].err = "ID is not found"
        /\ rem_consumed = <<rem_channels[d].id>>
        /\ rem_channels[d].id \in rem_accepted

\* C25: the ids one server vends are 0, 10, 20, ... in vending order:
\* pairwise distinct, each 10 above the one before, whichever channel's
\* listener accepted and whether or not earlier ids were consumed.
C25_IdsStepTen ==
    /\ \A i \in 1..Len(rem_vended) : rem_vended[i] = 10 * (i - 1)
    /\ \A i, j \in 1..Len(rem_vended) : i # j => rem_vended[i] # rem_vended[j]
    /\ \A i \in 1..(Len(rem_vended) - 1) : rem_vended[i + 1] = rem_vended[i] + 10
    /\ rem_counter = 10 * Len(rem_vended)

\* Two TcpBind channels each vended an id, the second after the first id
\* was consumed and had left the map
C25_Witness ==
    \E c, d \in Channels :
        /\ c # d
        /\ rem_channels[c].req = "TcpBind"
        /\ rem_channels[d].req = "TcpBind"
        /\ rem_channels[c].pc = "accept"
        /\ rem_channels[d].id = 10
        /\ rem_channels[d].pc = "send_accept"
        /\ rem_consumed = <<0>>

\* C26: a TcpBind channel sends BindAddr at most once, and has sent it
\* exactly once whenever it is in the loop that sends Accepts; an id that
\* was sent in an Accept was stored first: it is in the map unless a
\* TcpAccept consumed it.
C26_BindAddrThenAccepts ==
    /\ \A c \in Channels :
           /\ rem_channels[c].bind_addrs <= 1
           /\ rem_channels[c].pc \in {"accept", "send_accept"} =>
                  /\ rem_channels[c].bind_addrs = 1
                  /\ rem_channels[c].req = "TcpBind"
           /\ rem_channels[c].pc \in {"idle", "recv", "bind", "send_bind_addr"} =>
                  rem_channels[c].bind_addrs = 0
           /\ rem_channels[c].bind_addrs = 1 => rem_channels[c].req = "TcpBind"
    /\ \A id \in rem_accepted :
           /\ id \in DOMAIN rem_map \/ id \in Range(rem_consumed)
           /\ id \notin Range(rem_consumed) => Map_get(rem_map, id).found

\* A TcpBind channel sent BindAddr and then an Accept whose id nobody has
\* consumed, and is back accepting
C26_Witness ==
    \E c \in Channels :
        /\ rem_channels[c].pc = "accept"
        /\ rem_channels[c].bind_addrs = 1
        /\ \E id \in rem_accepted :
               /\ id \in DOMAIN rem_map
               /\ rem_map[id] = c
               /\ id \notin Range(rem_consumed)

\* C27: the step in which a channel's task fails changes that task only:
\* start is where it was, every other task is where it was, and the map
\* holds what it held; start returns only when protocol.channel() fails.
C27_FailureEndsOneChannel ==
    [][/\ \A c \in Channels :
              (rem_channels[c].pc \notin Ended /\ rem_channels'[c].pc = "failed") =>
                  /\ rem_server' = rem_server
                  /\ rem_map' = rem_map
                  /\ \A d \in Channels \ {c} : rem_channels'[d] = rem_channels[d]
       /\ (rem_server = "accepting" /\ rem_server' = "stopped") => rem_protocol_err'
      ]_vars

\* A task has failed while another task holds a listener whose stream is in
\* the map, and start is still accepting channels
C27_Witness ==
    \E c, d \in Channels :
        /\ c # d
        /\ rem_channels[c].pc = "failed"
        /\ rem_channels[d].pc \in {"accept", "send_accept"}
        /\ \E id \in DOMAIN rem_map : rem_map[id] = d
        /\ rem_server = "accepting"
        /\ \E e \in Channels : rem_channels[e].pc = "idle"

\* C28: a stream in the map belongs to a listener that is alive: once the
\* TcpBind task that stored it has ended, the map no longer holds it.
C28_PinnedWhileListenerAlive ==
    \A id \in DOMAIN rem_map : rem_channels[rem_map[id]].pc \notin Ended


\* ------------------------------------------------------------------------
\* The forward server (rd-std/src/builtin/forward.rs)
\* ------------------------------------------------------------------------

\* The clients that send datagrams to the forward server
Clients == {"A", "B"}

\* No reply came from upstream yet
NoReply == [origin |-> "none", to |-> "none"]

InitForward ==
    /\ fwd_udp_cfg = FALSE
    /\ fwd_start = "new"
    /\ fwd_result = "none"
    /\ fwd_loop = "none"
    /\ fwd_loop_err = "none"
    /\ fwd_tasks = [connect |-> 0, relay |-> 0]
    /\ fwd_logged = 0
    /\ fwd_accepted = 0
    /\ fwd_udp = "none"
    /\ fwd_udp_binds = {}
    /\ fwd_client = "None"
    /\ fwd_upstream = <<>>
    /\ fwd_udp_sent = 0
    /\ fwd_reply = NoReply

\* ServerBuilder::build, ForwardServer::new: the server is built from its
\* config, with or without udp
ForwardServer_new(udp) ==
    /\ fwd_start = "new"
    /\ fwd_start' = "bind"
    /\ fwd_udp_cfg' = udp
    /\ UNCHANGED <<fwd_result, fwd_loop, fwd_loop_err, fwd_tasks, fwd_logged,
                   fwd_accepted, fwd_udp, fwd_udp_binds, fwd_client, fwd_upstream,
                   fwd_udp_sent, fwd_reply>>
    /\ UNCHANGED notFwdVars

\* start: self.listen_net.tcp_bind(..).await?, then the two branches are
\* made and the select begins
ForwardServer_start_bind ==
    /\ fwd_start = "bind"
    /\ \/ /\ fwd_start' = "select"
          /\ fwd_loop' = "accepting"
          /\ fwd_udp' = "start"
          /\ UNCHANGED fwd_result
       \/ /\ fwd_start' = "returned"
          /\ fwd_result' = "Err"
          /\ UNCHANGED <<fwd_loop, fwd_udp>>
    /\ UNCHANGED <<fwd_udp_cfg, fwd_loop_err, fwd_tasks, fwd_logged, fwd_accepted,
                   fwd_udp_binds, fwd_client, fwd_upstream, fwd_udp_sent, fwd_reply>>
    /\ UNCHANGED notFwdVars

\* A serve_listener that awaits serve_connection in the loop and returns
\* its error
serve_listener_on_task_error_inline(loop) ==
    [loop |-> "returned", err |-> "connection"]

\* serve_listener, the spawned block: if let Err(e) = .. { tracing::error! }.
\* The task's error is logged inside the task; the loop is where it was.
serve_listener_on_task_error(loop) ==
    [loop |-> loop, err |-> fwd_loop_err]

\* The select of start, when serve_listener has returned: r? returns its
\* error, and the other branch is dropped
select_tcp_returned(loop) ==
    IF loop = "returned"
    THEN [start |-> "returned", result |-> "Err",
          udp |-> IF fwd_udp = "returned" THEN fwd_udp ELSE "dropped"]
    ELSE [start |-> fwd_start, result |-> fwd_result, udp |-> fwd_udp]

\* serve_listener: listener.accept().await? returns a connection and a task
\* is spawned for it, or returns an error and the loop with it
serve_listener_accept ==
    /\ fwd_loop = "accepting"
    /\ \/ /\ fwd_accepted < MaxAccepts
          /\ fwd_accepted' = fwd_accepted + 1
          /\ fwd_tasks' = [fwd_tasks EXCEPT !.connect = @ + 1]
          /\ UNCHANGED <<fwd_loop, fwd_loop_err, fwd_start, fwd_result, fwd_udp>>
       \/ /\ fwd_loop' = "returned"
          /\ fwd_loop_err' = "accept"
          /\ fwd_start' = select_tcp_returned("returned").start
          /\ fwd_result' = select_tcp_returned("returned").result
          /\ fwd_udp' = select_tcp_returned("returned").udp
          /\ UNCHANGED <<fwd_accepted, fwd_tasks>>
    /\ UNCHANGED <<fwd_udp_cfg, fwd_logged, fwd_udp_binds, fwd_client,
                   fwd_upstream, fwd_udp_sent, fwd_reply>>
    /\ UNCHANGED notFwdVars

\* A task's error: logged, and whatever it does to the loop that spawned it
TaskFails ==
    /\ fwd_logged' = fwd_logged + 1
    /\ fwd_loop' = IF fwd_loop = "accepting"
                   THEN serve_listener_on_task_error(fwd_loop).loop
                   ELSE fwd_loop
    /\ fwd_loop_err' = IF fwd_loop = "accepting"
                       THEN serve_listener_on_task_error(fwd_loop).err
                       ELSE fwd_loop_err
    /\ fwd_start' = IF fwd_loop = "accepting"
                    THEN select_tcp_returned(serve_listener_on_task_error(fwd_loop).loop).start
                    ELSE fwd_start
    /\ fwd_result' = IF fwd_loop = "accepting"
                     THEN select_tcp_returned(serve_listener_on_task_error(fwd_loop).loop).result
                     ELSE fwd_result
    /\ fwd_udp' = IF fwd_loop = "accepting"
                  THEN select_tcp_returned(serve_listener_on_task_error(fwd_loop).loop).udp
                  ELSE fwd_udp

\* serve_connection: net.tcp_connect(ctx, &cfg.target).await? (in the
\* Shadowsocks server, after the target address was read from the socket)
serve_connection_connect ==
    /\ fwd_tasks.connect > 0
    /\ \/ /\ fwd_tasks' = [connect |-> fwd_tasks.connect - 1,
                           relay |-> fwd_tasks.relay + 1]
          /\ UNCHANGED <<fwd_logged, fwd_loop, fwd_loop_err, fwd_start,
                         fwd_result, fwd_udp>>
       \/ /\ fwd_tasks' = [fwd_tasks EXCEPT !.connect = @ - 1]
          /\ TaskFails
    /\ UNCHANGED <<fwd_udp_cfg, fwd_accepted, fwd_udp_binds, fwd_client,
                   fwd_upstream, fwd_udp_sent, fwd_reply>>
    /\ UNCHANGED notFwdVars

\* serve_connection: connect_tcp(ctx, socket, target).await?; Ok(())
serve_connection_relay ==
    /\ fwd_tasks.relay > 0
    /\ fwd_tasks' = [fwd_tasks EXCEPT !.relay = @ - 1]
    /\ \/ UNCHANGED <<fwd_logged, fwd_loop, fwd_loop_err, fwd_start, fwd_result,
                      fwd_udp>>
       \/ TaskFails
    /\ UNCHANGED <<fwd_udp_cfg, fwd_accepted, fwd_udp_binds, fwd_client,
                   fwd_upstream, fwd_udp_sent, fwd_reply>>
    /\ UNCHANGED notFwdVars

\* The select of start, when serve_udp has returned: r? returns its error,
\* Ok(()) follows its Ok, and serve_listener is dropped
UdpReturns(r) ==
    /\ fwd_udp' = "returned"
    /\ fwd_start' = "returned"
    /\ fwd_result' = r
    /\ fwd_loop' = "dropped"

\* A serve_udp that does not look at cfg.udp
serve_udp_waits_ungated(udp) == FALSE

\* serve_udp, its head: if !self.cfg.udp { pending::<()>().await; }
serve_udp_waits(udp) == ~udp

\* serve_udp, up to the first bind: pending::<()>() without cfg.udp, else
\* listen_net.udp_bind(..).await?
serve_udp_start ==
    /\ fwd_udp = "start"
    /\ IF serve_udp_waits(fwd_udp_cfg)
       THEN /\ fwd_udp' = "pending"
            /\ UNCHANGED <<fwd_udp_binds, fwd_start, fwd_result, fwd_loop>>
       ELSE /\ fwd_udp_binds' = fwd_udp_binds \cup {"listen_net"}
            /\ \/ /\ fwd_udp' = "bind_net"
                  /\ UNCHANGED <<fwd_start, fwd_result, fwd_loop>>
               \/ UdpReturns("Err")
    /\ UNCHANGED <<fwd_udp_cfg, fwd_loop_err, fwd_tasks, fwd_logged, fwd_accepted,
                   fwd_client, fwd_upstream, fwd_udp_sent, fwd_reply>>
    /\ UNCHANGED notFwdVars

\* serve_udp: cfg.target.to_any_addr_port()? and net.udp_bind(..).await?
serve_udp_bind_net ==
    /\ fwd_udp = "bind_net"
    /\ \/ /\ fwd_udp_binds' = fwd_udp_binds \cup {"net"}
          /\ \/ /\ fwd_udp' = "bridge"
                /\ UNCHANGED <<fwd_start, fwd_result, fwd_loop>>
             \/ UdpReturns("Err")
       \/ /\ UdpReturns("Err")
          /\ UNCHANGED fwd_udp_binds
    /\ UNCHANGED <<fwd_udp_cfg, fwd_loop_err, fwd_tasks, fwd_logged, fwd_accepted,
                   fwd_client, fwd_upstream, fwd_udp_sent, fwd_reply>>
    /\ UNCHANGED notFwdVars

\* connect_udp, the inbound half: each item the channel yields is sent
\* through the outbound socket to the address it is tagged with
connect_udp_inbound(upstream, origin) == Append(upstream, origin)

\* connect_udp, the outbound half: a reply from the outbound socket is given
\* to the channel's start_send, tagged with the client it is for
connect_udp_outbound(origin) == [bytes |-> origin, addr |-> origin]

\* Stream::poll_next of ListenUdpChannel: a datagram of a client arrives;
\* client is set to its sender and the item is tagged with cfg.target
ListenUdpChannel_poll_next(c) ==
    /\ fwd_udp = "bridge"
    /\ fwd_udp_sent < MaxUdp
    /\ Len(fwd_upstream) < MaxInflight
    /\ fwd_udp_sent' = fwd_udp_sent + 1
    /\ fwd_client' = c
    /\ fwd_upstream' = connect_udp_inbound(fwd_upstream, c)
    /\ UNCHANGED <<fwd_udp_cfg, fwd_start, fwd_result, fwd_loop, fwd_loop_err,
                   fwd_tasks, fwd_logged, fwd_accepted, fwd_udp, fwd_udp_binds,
                   fwd_reply>>
    /\ UNCHANGED notFwdVars

\* Sink::start_send of ListenUdpChannel: (bytes, _), the tag is not read;
\* the bytes go to client when it is Some, and nowhere (Ok(())) when None
ListenUdpChannel_start_send_call(client, item) ==
    IF client # "None"
    THEN [res |-> "Ok", bytes |-> item.bytes, to |-> client]
    ELSE [res |-> "Ok", bytes |-> item.bytes, to |-> "nobody"]

\* The upstream answers the oldest datagram it has and the reply is given
\* to start_send
ListenUdpChannel_start_send ==
    /\ fwd_udp = "bridge"
    /\ fwd_upstream # <<>>
    /\ fwd_reply' =
           [origin |-> Head(fwd_upstream),
            to |-> ListenUdpChannel_start_send_call(
                       fwd_client, connect_udp_outbound(Head(fwd_upstream))).to]
    /\ fwd_upstream' = Tail(fwd_upstream)
    /\ UNCHANGED <<fwd_udp_cfg, fwd_start, fwd_result, fwd_loop, fwd_loop_err,
                   fwd_tasks, fwd_logged, fwd_accepted, fwd_udp, fwd_udp_binds,
                   fwd_client, fwd_udp_sent>>
    /\ UNCHANGED notFwdVars

\* connect_udp(..).await? returns, with Ok or with an error
serve_udp_bridge_ends ==
    /\ fwd_udp = "bridge"
    /\ \E r \in {"Ok", "Err"} : UdpReturns(r)
    /\ UNCHANGED <<fwd_udp_cfg, fwd_loop_err, fwd_tasks, fwd_logged, fwd_accepted,
                   fwd_udp_binds, fwd_client, fwd_upstream, fwd_udp_sent, fwd_reply>>
    /\ UNCHANGED notFwdVars

\* The controller drops the future of start: both branches go with it, the
\* spawned tasks do not
ForwardServer_dropped ==
    /\ fwd_start = "select"
    /\ fwd_start' = "dropped"
    /\ fwd_loop' = "dropped"
    /\ fwd_udp' = "dropped"
    /\ UNCHANGED <<fwd_udp_cfg, fwd_result, fwd_loop_err, fwd_tasks, fwd_logged,
                   fwd_accepted, fwd_udp_binds, fwd_client, fwd_upstream,
                   fwd_udp_sent, fwd_reply>>
    /\ UNCHANGED notFwdVars

NextForward ==
    \/ \E udp \in BOOLEAN : ForwardServer_new(udp)
    \/ ForwardServer_start_bind
    \/ serve_listener_accept
    \/ serve_connection_connect
    \/ serve_connection_relay
    \/ serve_udp_start
    \/ serve_udp_bind_net
    \/ \E c \in Clients : ListenUdpChannel_poll_next(c)
    \/ ListenUdpChannel_start_send
    \/ serve_udp_bridge_ends
    \/ ForwardServer_dropped

\* ------------------------------------------------------------------------
\* Properties of the forward server (checked under SpecForward)
\* ------------------------------------------------------------------------

C30_ReplyToOrigin ==
    fwd_reply # NoReply => fwd_reply.to = fwd_reply.origin


\* ------------------------------------------------------------------------
\* The process (src/main.rs)
\* ------------------------------------------------------------------------

InitMain ==
    /\ main_pc = "setup"
    /\ main_result = "none"
    /\ exit_code = -1

\* real_main up to start_stream: App::new().await?, run_api_server(..).await?
\* and config_stream(..).await?, each of which may return its error
real_main_setup ==
    /\ main_pc = "setup"
    /\ \/ /\ main_pc' = "start_stream"
          /\ UNCHANGED main_result
       \/ /\ main_pc' = "match"
          /\ main_result' = "Err"
    /\ UNCHANGED exit_code
    /\ UNCHANGED notMainVars

\* app.rd.start_stream(stream): the reload loop, run on the stream of
\* configs; its result is the result of the loop
start_stream_result == result

\* real_main, the end: start_stream(..).await.context(..)?; Ok(())
real_main_returns ==
    /\ main_pc = "start_stream"
    /\ ctl_pc = "returned"
    /\ main_pc' = "match"
    /\ main_result' = IF start_stream_result = "Ok" THEN "Ok" ELSE "Err"
    /\ UNCHANGED exit_code
    /\ UNCHANGED notMainVars

\* main, from the match on: Ok(()) => {}, Err(e) => tracing::error!(..), and
\* then Ok(()) for both
main_returns(r) == "Ok"

\* The exit code of a main that returns Result<()>: 0 for Ok, 1 for Err
Termination_report(ret) == IF ret = "Ok" THEN 0 ELSE 1

main_match ==
    /\ main_pc = "match"
    /\ main_pc' = "exited"
    /\ exit_code' = Termination_report(main_returns(main_result))
    /\ UNCHANGED main_result
    /\ UNCHANGED notMainVars

\* The process: the reload loop runs inside real_main's start_stream
NextMain ==
    \/ real_main_setup
    \/ (main_pc = "start_stream" /\ NextController)
    \/ real_main_returns
    \/ main_match

\* ------------------------------------------------------------------------
\* Properties of the process (checked under SpecMain)
\* ------------------------------------------------------------------------

\* C31: the process exits with 0 exactly when the run ended normally: a run
\* that failed (no first config, a build that failed, an error of the config
\* stream, a failed setup) exits with a non-zero code.
C31_ExitCode ==
    main_pc = "exited" => (exit_code = 0 <=> main_result = "Ok")

\* The server was built without udp
UdpOff == fwd_start # "new" /\ ~fwd_udp_cfg

\* start returned because tcp_bind failed
TcpBindFailed == fwd_start = "returned" /\ fwd_loop = "none"

\* C32: without udp, no udp_bind is ever made and the UDP branch never
\* completes, so start ends only with the accept loop (or with the failed
\* tcp_bind); with or without udp, nothing of UDP happens before tcp_bind has
\* succeeded, and a failed tcp_bind returns its error with no udp_bind made.
C32_UdpOffNoUdpBind ==
    /\ UdpOff =>
           /\ fwd_udp_binds = {}
           /\ fwd_udp \in {"none", "start", "pending", "dropped"}
           /\ fwd_client = "None" /\ fwd_udp_sent = 0
           /\ fwd_start = "returned" => (fwd_loop = "returned" \/ TcpBindFailed)
    /\ fwd_start \in {"new", "bind"} => (fwd_udp = "none" /\ fwd_udp_binds = {})
    /\ TcpBindFailed =>
           /\ fwd_result = "Err"
           /\ fwd_udp = "none"
           /\ fwd_udp_binds = {}

\* A server without udp has accepted a connection while its UDP branch waits
\* for good, and then start has ended with the accept loop
C32_Witness ==
    /\ UdpOff
    /\ fwd_accepted >= 1
    /\ fwd_start = "returned"
    /\ fwd_loop = "returned"
    /\ fwd_udp = "dropped"

\* ------------------------------------------------------------------------
\* Specifications
\* ------------------------------------------------------------------------

Init == InitHost /\ InitStream /\ InitUdp /\ InitController /\ InitEvents /\ InitBroadcast /\ InitRemote /\ InitForward /\ InitMain

Next == NextHost \/ NextStream \/ NextUdp \/ NextController \/ NextEvents \/ NextBroadcast \/ NextRemote \/ NextForward \/ NextMain

\* The virtual host's registry, with the stream left as it was made
SpecHost == Init /\ [][NextHost]_vars

\* One stream of the virtual host, with the registry left as it was made.
\* The stream code has no arithmetic that depends on the build.
InitOneStream == Init /\ build = "release"

SpecStream == InitOneStream /\ [][NextStream]_vars

\* One UDP pipe of the virtual host, with the rest left as it was made
SpecUdp == InitOneStream /\ [][NextUdp]_vars

\* One call of run_stream on a fresh controller, with the rest left as it
\* was made
SpecController == InitOneStream /\ [][NextController]_vars

\* The event queue and its drainer, with the rest left as it was made
SpecEvents == InitOneStream /\ [][NextEvents]_vars


\* The event broadcast and its subscribers, with the rest left as it was
\* made
SpecBroadcast == InitOneStream /\ [][NextBroadcast]_vars


\* One remote tunnel server, with the rest left as it was made
SpecRemote == InitOneStream /\ [][NextRemote]_vars


\* One forward server, with the rest left as it was made
SpecForward == InitOneStream /\ [][NextForward]_vars


\* The process around one run of the reload loop, with the rest left as it
\* was made
SpecMain == InitOneStream /\ [][NextMain]_vars

Spec == Init /\ [][Next]_vars

====
